---- MODULE Spec2Model ----
(***************************************************************************)
(* jenVEK-node: the procedural pattern generation engine.                  *)
(*                                                                         *)
(* Numbers the code keeps as doubles are kept here in fixed point:         *)
(*   - a random value v in [0,1] is the integer floor(v*1000), 0..1000     *)
(*     (1000 is the value 1.0 that secureRandom's division by 0xFFFFFFFF   *)
(*     can deliver);                                                       *)
(*   - lengths are in thousandths of a pixel;                              *)
(*   - complexity is carried doubled (complexityX2) because the layer      *)
(*     decay subtracts 1.5 per layer; scale is carried in thousandths.     *)
(***************************************************************************)
EXTENDS Integers, Sequences, FiniteSets, TLC

VARIABLES
    \* ---- the page between two handlers (generator.js, state.js) ----
    mathRandom,      \* which function Math.random currently is
    env,             \* what the host supplies: crypto, entropy, clock, colours
    tree,            \* children of dom.svg after <defs>, in document order
    defs,            \* children of dom.defs (the Definition Registry)
    isAnimating,     \* state.isAnimating
    animationFrame,  \* state.animationFrame (0 stands for null)
    pending,         \* the host's pending frame callbacks
    nextHandle,      \* the next handle requestAnimationFrame returns
    currentOptions,  \* state.currentOptions
    mathInfo,        \* state.mathInfo
    ui,              \* what updateSVGStats and updateMathInfo last displayed
    generationCount, \* state.generationCount
    svgData,         \* state.svgData
    last,            \* observations of the handlers run so far
    \* ---- one strategy invocation, stepped call by call ----
    run,
    \* ---- getColorPalette on one input ----
    pal,
    \* ---- pointsToPathString on one input ----
    path,
    \* ---- one other function of the engine on one input ----
    unit

vars == <<mathRandom, env, tree, defs, isAnimating, animationFrame, pending,
          nextHandle, currentOptions, mathInfo, ui, generationCount, svgData,
          last,
          run, pal, path, unit>>

pageVars == <<mathRandom, env, tree, defs, isAnimating, animationFrame, pending,
              nextHandle, currentOptions, mathInfo, ui, generationCount,
              svgData, last>>

-----------------------------------------------------------------------------
(* Bounds of the model *)

\* length of the environment's random tape (read cyclically)
TapeLen == 2
\* generateSVG calls in one behaviour
MaxPasses == 2
\* frame callbacks the host runs in one behaviour
MaxFrames == 2
\* layers in one pass
MaxLayers == 2

(* Program constants *)

MAX_RECURSION_SAFETY == 10000
LcgModulus == 2147483647
LcgMultiplier == 16807

-----------------------------------------------------------------------------
(* Small helpers *)

Max(a, b) == IF a >= b THEN a ELSE b
Min(a, b) == IF a <= b THEN a ELSE b
Abs(a) == IF a < 0 THEN -a ELSE a

\* Array.prototype.filter
RECURSIVE Filter(_, _)
Filter(s, bad) ==
    IF s = <<>> THEN <<>>
    ELSE IF Head(s) \in bad THEN Filter(Tail(s), bad)
         ELSE <<Head(s)>> \o Filter(Tail(s), bad)

Range(s) == {s[i] : i \in 1..Len(s)}

-----------------------------------------------------------------------------
(* The seeded generator of generateSVG *)

\* currentSeed = Math.floor(Math.abs(seed)) % 2147483647; 0 becomes 1
LcgSeed(seed) ==
    LET s == Abs(seed) % LcgModulus IN IF s = 0 THEN 1 ELSE s

\* currentSeed = (currentSeed * 16807) % 2147483647.  The product is exact in
\* a double (below 2^53); here it is computed by Schrage's decomposition,
\* which gives the same residue without leaving 32 bits.
LcgNext(s) ==
    LET q == LcgModulus \div LcgMultiplier
        r == LcgModulus % LcgMultiplier
        t == LcgMultiplier * (s % q) - r * (s \div q)
    IN  IF t < 0 THEN t + LcgModulus ELSE t

\* (currentSeed - 1) / 2147483646, in thousandths
LcgOutput(s) == (s - 1) \div 2147484

\* hash |= 0 after hash = ((hash << 5) - hash) + char, i.e. 31*hash + char
\* wrapped to a signed 32-bit integer; computed on 16-bit halves
HashStep(hash, char) ==
    LET lo == hash % 65536
        hi == hash \div 65536
        l2 == lo * 31 + char
        h2 == hi * 31 + (l2 \div 65536)
        hw == ((h2 + 32768) % 65536) - 32768
    IN  hw * 65536 + (l2 % 65536)

RECURSIVE HashFrom(_, _)
HashFrom(hash, str) ==
    IF str = <<>> THEN hash ELSE HashFrom(HashStep(hash, Head(str)), Tail(str))

\* simpleStringHash(str): Math.abs of the wrapped hash.  Math.abs(-2^31) is
\* 2^31, whose residue modulo 2147483647 is 1; that one value is returned
\* already reduced.
simpleStringHash(str) ==
    LET h == HashFrom(0, str)
    IN  IF h = -2147483647 - 1 THEN 1 ELSE Abs(h)

\* A seed string is a sequence of char codes.  parseFloat succeeds on the
\* strings of the model exactly when they consist of digits.
IsDigits(str) == str # <<>> /\ \A i \in 1..Len(str) : str[i] \in 48..57

RECURSIVE ParseDigits(_, _)
ParseDigits(acc, str) ==
    IF str = <<>> THEN acc ELSE ParseDigits(acc * 10 + (Head(str) - 48), Tail(str))

\* generateSVG's seeding logic: the numeric seed for the pass
SeedFor(seedOverride, now) ==
    IF seedOverride # <<>>
    THEN IF IsDigits(seedOverride) THEN ParseDigits(0, seedOverride)
         ELSE simpleStringHash(seedOverride)
    ELSE now

-----------------------------------------------------------------------------
(* Randomness.  A context c is threaded through every operator that draws:
     c.src        "seeded" or "native": what Math.random is
     c.lcg        currentSeed of the seeded generator
     c.crypto     whether secureRandom has a crypto source
     c.tape,c.pos the environment's randomness (crypto, native Math.random)
     c.fromLcg    draws served by the seeded generator
     c.fromOther  draws served by anything else
     c.now        Date.now()
     c.defs       dom.defs' children
     c.threw      an exception is propagating
     c.ret        the value returned by the last call
   A function that makes several draws is written as one operator per
   statement group: the operator named f_x continues f once x is known.     *)

EnvDraw(c) ==
    [c EXCEPT !.pos = (c.pos % Len(c.tape)) + 1,
              !.ret = c.tape[c.pos],
              !.fromOther = c.fromOther + 1]

\* seededRandom(): currentSeed advances to s and s / m is returned
SeededDraw(c, s) ==
    [c EXCEPT !.lcg = s, !.ret = LcgOutput(s), !.fromLcg = c.fromLcg + 1]

\* Math.random(): the seeded closure while it is installed
MathRandomCall(c) ==
    IF c.src = "seeded" THEN SeededDraw(c, LcgNext(c.lcg)) ELSE EnvDraw(c)

\* secureRandom(): buffer[0] / 0xFFFFFFFF when crypto exists, else Math.random()
secureRandom(c) ==
    IF c.crypto THEN EnvDraw(c) ELSE MathRandomCall(c)

\* random(min, max) = secureRandom() * (max - min) + min; the callers of the
\* model need the drawn fraction, which is left in c.ret
random(c) == secureRandom(c)

\* two random(min, max) calls in a row; c.ret is the pair drawn
random_second(d, first) == [d EXCEPT !.ret = <<first, d.ret>>]
random_first(d) == random_second(random(d), d.ret)
randomPair(c) == random_first(random(c))

\* randomInt(min, max) = Math.floor(random(min, max + 1))
randomInt_floor(d, min, max) ==
    [d EXCEPT !.ret = min + ((d.ret * (max + 1 - min)) \div 1000)]
randomInt(c, min, max) == randomInt_floor(secureRandom(c), min, max)

\* randomChoice(array): null for an empty array, array[floor(r * length)],
\* which is undefined when the index equals the length
Undefined == "undefined"
randomChoice_at(d, array) ==
    [d EXCEPT !.ret = IF (d.ret * Len(array)) \div 1000 < Len(array)
                      THEN array[((d.ret * Len(array)) \div 1000) + 1]
                      ELSE Undefined]
randomChoice(c, array) ==
    IF Len(array) = 0 THEN [c EXCEPT !.ret = Undefined]
    ELSE randomChoice_at(secureRandom(c), array)

\* a || b on colour strings
OrElse(a, b) == IF a = Undefined THEN b ELSE a

\* generateUniqueId(prefix): `${prefix}-${Date.now()}-${randomInt(1000, 9999)}`
generateUniqueId_id(d, prefix) ==
    [d EXCEPT !.ret = [prefix |-> prefix, time |-> d.now, n |-> d.ret]]
generateUniqueId(c, prefix) == generateUniqueId_id(randomInt(c, 1000, 9999), prefix)

\* draws randomInt(lo, hi) for each <<lo, hi>> of ranges, in order; c.ret is
\* the sequence of items drawn
RECURSIVE DrawInts(_, _, _)
DrawInts_drawn(d, ranges, acc) ==
    DrawInts(d, Tail(ranges), Append(acc, [color |-> "", n |-> d.ret]))
DrawInts(c, ranges, acc) ==
    IF ranges = <<>> THEN [c EXCEPT !.ret = acc]
    ELSE DrawInts_drawn(randomInt(c, Head(ranges)[1], Head(ranges)[2]), ranges, acc)

-----------------------------------------------------------------------------
(* Fill & colour resolver (colorUtils.js) *)

NoId == [prefix |-> "", time |-> 0, n |-> 0]
ColorFill(col) == [kind |-> "color", color |-> col, id |-> NoId]
UrlFill(id) == [kind |-> "url", color |-> "", id |-> id]
NoneFill == [kind |-> "none", color |-> "", id |-> NoId]

\* the colour stops of createGradientFill, i = 0 .. numStops-1
RECURSIVE GradientStops(_, _, _, _, _, _)
GradientStops_offset(d3, palette, numStops, i, usedColors, items, stopColor) ==
    GradientStops(d3, palette, numStops, i + 1, usedColors \cup {stopColor},
                  Append(items, [color |-> OrElse(stopColor, "grey"), n |-> d3.ret]))
GradientStops_unused(d2, palette, numStops, i, usedColors, items, stopColor) ==
    GradientStops_offset(random(d2), palette, numStops, i, usedColors, items,
                         OrElse(d2.ret, stopColor))
GradientStops_color(d1, palette, numStops, i, usedColors, items) ==
    IF Len(palette) > numStops /\ d1.ret \in usedColors
    THEN GradientStops_unused(randomChoice(d1, Filter(palette, usedColors)),
                              palette, numStops, i, usedColors, items, d1.ret)
    ELSE GradientStops_offset(random(d1), palette, numStops, i, usedColors, items, d1.ret)
GradientStops(c, palette, numStops, i, usedColors, items) ==
    IF i >= numStops THEN [c EXCEPT !.ret = items]
    ELSE GradientStops_color(randomChoice(c, palette), palette, numStops, i,
                             usedColors, items)

\* createGradientFill(palette), dom.defs being available
createGradientFill_append(c5, gradientId, kind, attrs) ==
    [c5 EXCEPT !.defs = Append(c5.defs, [id |-> gradientId, kind |-> kind,
                                         body |-> attrs \o c5.ret]),
               !.ret = UrlFill(gradientId)]
createGradientFill_numStops(c4, palette, gradientId, kind, attrs) ==
    createGradientFill_append(GradientStops(c4, palette, c4.ret, 0, {}, <<>>),
                              gradientId, kind, attrs)
createGradientFill_attrs(c3, palette, gradientId, kind) ==
    createGradientFill_numStops(randomInt(c3, 2, Min(4, Len(palette))),
                                palette, gradientId, kind, c3.ret)
createGradientFill_isLinear(c2, palette, gradientId) ==
    IF c2.ret < 700
    THEN createGradientFill_attrs(
             DrawInts(c2, <<<<0, 100>>, <<0, 100>>, <<0, 100>>, <<0, 100>>>>, <<>>),
             palette, gradientId, "linearGradient")
    ELSE createGradientFill_attrs(
             DrawInts(c2, <<<<25, 75>>, <<25, 75>>, <<50, 150>>, <<25, 75>>, <<25, 75>>>>,
                      <<>>),
             palette, gradientId, "radialGradient")
createGradientFill_gradientId(c1, palette) ==
    createGradientFill_isLinear(secureRandom(c1), palette, c1.ret)
createGradientFill(c, palette) ==
    IF Len(palette) < 2
    THEN [c EXCEPT !.ret = ColorFill(IF Len(palette) = 1 THEN palette[1] ELSE "grey")]
    ELSE createGradientFill_gradientId(generateUniqueId(c, "gradient"), palette)

\* the motif of createPatternFill's switch (patternShapeType); c.ret is the
\* sequence of items placed in the tile
PatternShapes_dot(d, fillColor) ==
    [d EXCEPT !.ret = <<[color |-> fillColor, n |-> d.ret]>>]
PatternShapes_lines(d, patternShapeType, strokeColor) ==
    [d EXCEPT !.ret = IF d.ret > 600
                      THEN <<[color |-> strokeColor, n |-> patternShapeType],
                             [color |-> strokeColor, n |-> patternShapeType]>>
                      ELSE <<[color |-> strokeColor, n |-> patternShapeType]>>]
PatternShapes_secondColor(e, strokeColor, fillColor) ==
    [e EXCEPT !.ret = <<[color |-> fillColor, n |-> 4],
                        [color |-> OrElse(e.ret, strokeColor), n |-> 4]>>]
PatternShapes_triangles(d, palette, strokeColor, fillColor) ==
    IF d.ret > 500
    THEN PatternShapes_secondColor(randomChoice(d, Filter(palette, {fillColor})),
                                   strokeColor, fillColor)
    ELSE [d EXCEPT !.ret = <<[color |-> fillColor, n |-> 4]>>]
PatternShapes_smallSize(e, isCircle, fillColor) ==
    [e EXCEPT !.ret = <<[color |-> fillColor, n |-> IF isCircle THEN e.ret ELSE -e.ret]>>]
PatternShapes_small(d, fillColor) ==
    PatternShapes_smallSize(random(d), d.ret > 500, fillColor)
PatternShapes(c, palette, patternShapeType, strokeColor, fillColor) ==
    CASE patternShapeType = 0 -> PatternShapes_dot(random(c), fillColor)
      [] patternShapeType \in {1, 2} ->
            PatternShapes_lines(secureRandom(c), patternShapeType, strokeColor)
      [] patternShapeType = 3 ->
            [c EXCEPT !.ret = <<[color |-> fillColor, n |-> 3], [color |-> fillColor, n |-> 3]>>]
      [] patternShapeType = 4 ->
            PatternShapes_triangles(secureRandom(c), palette, strokeColor, fillColor)
      [] patternShapeType = 5 -> PatternShapes_small(secureRandom(c), fillColor)
      [] OTHER -> [c EXCEPT !.ret = <<>>]

\* createPatternFill(palette), dom.defs being available.  fillColor is
\* declared const: the reassignment taken when it equals strokeColor and the
\* palette has more than one colour raises a TypeError (after its right-hand
\* side has drawn).
createPatternFill_append(c10, patternId, body) ==
    [c10 EXCEPT !.defs = Append(c10.defs, [id |-> patternId, kind |-> "pattern",
                                           body |-> body \o c10.ret]),
                !.ret = UrlFill(patternId)]
createPatternFill_strokeWidth(c9, palette, patternId, body, patternShapeType, strokeColor, fillColor) ==
    createPatternFill_append(
        PatternShapes(c9, palette, patternShapeType, strokeColor, fillColor),
        patternId, body \o <<[color |-> "", n |-> c9.ret]>>)
createPatternFill_reassign(c9) == [c9 EXCEPT !.threw = TRUE, !.ret = NoneFill]
createPatternFill_fillColor(c8, palette, patternId, body, patternShapeType, strokeColor) ==
    IF OrElse(c8.ret, "lightgrey") = strokeColor /\ Len(palette) > 1
    THEN createPatternFill_reassign(randomChoice(c8, Filter(palette, {strokeColor})))
    ELSE createPatternFill_strokeWidth(random(c8), palette, patternId, body,
                                       patternShapeType, strokeColor,
                                       OrElse(c8.ret, "lightgrey"))
createPatternFill_strokeColor(c7, palette, patternId, body, patternShapeType) ==
    createPatternFill_fillColor(randomChoice(c7, palette), palette, patternId, body,
                                patternShapeType, OrElse(c7.ret, "grey"))
createPatternFill_shapeType(c6, palette, patternId, body) ==
    createPatternFill_strokeColor(randomChoice(c6, palette), palette, patternId, body,
                                  c6.ret)
createPatternFill_bgOpacity(c5, palette, patternId, size, bgColor) ==
    createPatternFill_shapeType(randomInt(c5, 0, 5), palette, patternId,
                                <<[color |-> "", n |-> size],
                                  [color |-> bgColor, n |-> c5.ret]>>)
createPatternFill_bgColor(c4, palette, patternId, size) ==
    createPatternFill_bgOpacity(random(c4), palette, patternId, size, c4.ret)
createPatternFill_hasBg(c3, palette, patternId, size) ==
    IF c3.ret > 500
    THEN createPatternFill_bgColor(randomChoice(c3, palette), palette, patternId, size)
    ELSE createPatternFill_shapeType(randomInt(c3, 0, 5), palette, patternId,
                                     <<[color |-> "", n |-> size]>>)
createPatternFill_size(c2, palette, patternId) ==
    createPatternFill_hasBg(secureRandom(c2), palette, patternId, c2.ret)
createPatternFill_patternId(c1, palette) ==
    createPatternFill_size(randomInt(c1, 8, 25), palette, c1.ret)
createPatternFill(c, palette) ==
    IF Len(palette) = 0 THEN [c EXCEPT !.ret = ColorFill("lightgrey")]
    ELSE createPatternFill_patternId(generateUniqueId(c, "pattern"), palette)

\* getRandomFill(palette, options), dom.defs being available
getRandomFill_color(c2) == [c2 EXCEPT !.ret = ColorFill(OrElse(c2.ret, "#888888"))]
getRandomFill_chance(c1, palette, fillType) ==
    IF fillType = "gradient" /\ c1.ret < 400 THEN createGradientFill(c1, palette)
    ELSE IF fillType = "pattern" /\ c1.ret >= 400 /\ c1.ret < 800
    THEN createPatternFill(c1, palette)
    ELSE getRandomFill_color(randomChoice(c1, palette))
getRandomFill(c, palette, fillType) ==
    IF fillType = "none" THEN [c EXCEPT !.ret = NoneFill]
    ELSE getRandomFill_chance(secureRandom(c),
                              IF Len(palette) = 0
                              THEN <<"#555555", "#888888", "#BBBBBB">> ELSE palette,
                              fillType)

-----------------------------------------------------------------------------
(* Strategies.  One invocation is a machine m advanced call by call:
     m.c               the randomness/registry context
     m.stack           the calls still to be made, innermost first
     m.recursionCount  state.recursionCount
     m.appended        primitives appended to the layer group so far
     m.out             those primitives (kept when m.keep)                   *)

Prim(tag, fill, stroke, args) ==
    [tag |-> tag, fill |-> fill, stroke |-> stroke, args |-> args]

Emit(m, prim) ==
    [m EXCEPT !.appended = m.appended + 1,
              !.out = IF m.keep THEN Append(m.out, prim) ELSE m.out]

\* appendChild after the draws that left the context c
EmitAfter(m, c, prim) ==
    [m EXCEPT !.c = c,
              !.appended = m.appended + 1,
              !.out = IF m.keep THEN Append(m.out, prim) ELSE m.out]

Thrown(m, c) == [m EXCEPT !.c = c, !.stack = <<>>]

(* ---- QuadTree.js ---- *)

\* the part of generateQuadtreeNode's base case that the quad alone decides
QuadLive(o, f) == f.depth < o.maxRecursion /\ f.w >= 2000 /\ f.h >= 2000

\* Math.random() < subdivideProb, with
\* subdivideProb = 0.4 + complexity/10*0.3 + density/100*0.3 - depth/maxDepth*0.3
ShouldSubdivide(o, depth, r) ==
    r * o.maxRecursion
        < (400 + 15 * o.complexityX2 + 3 * o.density) * o.maxRecursion - 300 * depth

\* clampedMid - x for one axis: half the extent, jittered by random(-10%, 10%)
\* of the half and clamped to [0.5, 1.5] halves
SplitAt(extent, r) ==
    Max((extent \div 2) \div 2,
        Min(((extent \div 2) * 3) \div 2,
            (extent \div 2) + (((extent \div 2) * (2 * r - 1000)) \div 10000)))

\* the leaf branch of generateQuadtreeNode
QuadLeaf_arcColor(m, c6, f, o, angles) ==
    EmitAfter(m, c6, Prim("path", NoneFill, OrElse(c6.ret, o.strokeColor),
                          <<f.depth, f.w, f.h>> \o angles))
QuadLeaf_arc(m, c5, f, o, palette) ==
    QuadLeaf_arcColor(m, randomChoice(c5, palette), f, o, c5.ret)
QuadLeaf_radii(m, c5, f, o, fill) ==
    EmitAfter(m, c5, Prim("ellipse", fill, o.strokeColor, <<f.depth, f.w, f.h>> \o c5.ret))
QuadLeaf_sides(m, c4, f, o, fill) ==
    EmitAfter(m, c4, Prim("polygon", fill, o.strokeColor, <<f.depth, f.w, f.h, c4.ret>>))
QuadLeaf_leafType(m, c3, f, o, palette, fill) ==
    CASE c3.ret = 0 ->
            EmitAfter(m, c3, Prim("rect", fill, o.strokeColor, <<f.depth, f.w, f.h>>))
      [] c3.ret = 1 ->
            EmitAfter(m, c3, Prim("circle", fill, o.strokeColor, <<f.depth, f.w, f.h>>))
      [] c3.ret = 2 -> QuadLeaf_radii(m, randomPair(c3), f, o, fill)
      [] c3.ret = 3 -> QuadLeaf_sides(m, randomInt(c3, 3, 6), f, o, fill)
      [] c3.ret = 4 -> QuadLeaf_arc(m, randomPair(c3), f, o, palette)
      [] OTHER -> [m EXCEPT !.c = c3]
QuadLeaf_fill(m, c2, f, o, palette) ==
    IF c2.threw THEN Thrown(m, c2)
    ELSE QuadLeaf_leafType(m, randomInt(c2, 0, 4), f, o, palette, c2.ret)
QuadLeaf(m, c1, f, o, palette) ==
    QuadLeaf_fill(m, getRandomFill(c1, palette, o.fillType), f, o, palette)

\* the four children of a subdividing node, in call order, for the split
\* widths lw and th of the left column and the top row
QuadKids(f, lw, th) ==
    << [op |-> "node", w |-> lw, h |-> th, depth |-> f.depth + 1],
       [op |-> "node", w |-> f.w - lw, h |-> th, depth |-> f.depth + 1],
       [op |-> "node", w |-> lw, h |-> f.h - th, depth |-> f.depth + 1],
       [op |-> "node", w |-> f.w - lw, h |-> f.h - th, depth |-> f.depth + 1] >>

\* one call of generateQuadtreeNode past the safety limit (frame "node"), or
\* the dividing lines a subdividing node draws after its four children have
\* returned (frame "lines").  Children that their own quad stops at once are
\* not stacked.
QuadCall_lines(m, f, o) ==
    [m EXCEPT !.stack = Tail(m.stack),
              !.recursionCount = m.recursionCount + 2,
              !.appended = m.appended + 2,
              !.out = IF m.keep
                      THEN m.out \o << Prim("line", NoneFill, o.strokeColor,
                                            <<f.depth, f.w, f.h>>),
                                       Prim("line", NoneFill, o.strokeColor,
                                            <<f.depth, f.w, f.h>>) >>
                      ELSE m.out]
QuadCall_split(m1, c3, f, o, lw, th) ==
    [m1 EXCEPT !.c = c3,
               !.stack = SelectSeq(QuadKids(f, lw, th), LAMBDA k : QuadLive(o, k))
                         \o (IF o.complexityX2 > 10 /\ o.density > 40
                             THEN <<[op |-> "lines", w |-> lw, h |-> th, depth |-> f.depth]>>
                             ELSE <<>>)
                         \o m1.stack]
QuadCall_mid(m1, c3, f, o) ==
    QuadCall_split(m1, c3, f, o, SplitAt(f.w, c3.ret[1]), SplitAt(f.h, c3.ret[2]))
QuadCall_subdivide(m1, c1, f, o, palette) ==
    IF ShouldSubdivide(o, f.depth, c1.ret)
    THEN QuadCall_mid(m1, randomPair(c1), f, o)
    ELSE QuadLeaf(m1, c1, f, o, palette)
QuadCall(m, o, palette) ==
    IF Head(m.stack).op = "lines" THEN QuadCall_lines(m, Head(m.stack), o)
    ELSE IF ~QuadLive(o, Head(m.stack)) THEN [m EXCEPT !.stack = Tail(m.stack)]
    ELSE QuadCall_subdivide([m EXCEPT !.stack = Tail(m.stack),
                                      !.recursionCount = m.recursionCount + 1],
                            MathRandomCall(m.c), Head(m.stack), o, palette)

\* the base case's safety limit, then the call
QuadStep(m, o, palette) ==
    IF Head(m.stack).op = "node" /\ m.recursionCount >= MAX_RECURSION_SAFETY
    THEN [m EXCEPT !.stack = Tail(m.stack)]
    ELSE QuadCall(m, o, palette)

\* generateQuadtreePattern up to its first generateQuadtreeNode call
QuadStart(c, o, keep) ==
    [c |-> c, keep |-> keep, recursionCount |-> 0, appended |-> 0, out |-> <<>>,
     stack |-> SelectSeq(<<[op |-> "node", w |-> o.viewportWidth * 1000,
                            h |-> o.viewportHeight * 1000, depth |-> 0]>>,
                         LAMBDA k : QuadLive(o, k))]

(* ---- recursive.js ---- *)

\* childSize = size * Math.max(0.1, (0.6 - depth*0.05) * (density/150 + 0.4))
ChildSize(o, size, depth) ==
    ((size \div 100) * Max(1500, (60 - 5 * depth) * (o.density + 60))) \div 150

\* recursiveDraw past its base case: count, fill, draw the shape, then
\* stack the loop over the children (frame "loop": the i-th iteration is next)
RecCall_children(m2, numChildren, childSize, f) ==
    IF childSize < 1000 \/ numChildren <= 0 THEN m2
    ELSE [m2 EXCEPT !.stack = <<[op |-> "loop", i |-> 0, n |-> numChildren,
                                 type |-> f.type, size |-> childSize,
                                 depth |-> f.depth + 1]>> \o m2.stack]
RecCall_shape(m1, c3, f, o, shape) ==
    RecCall_children(EmitAfter(m1, c3, shape), c3.ret, ChildSize(o, f.size, f.depth), f)
RecCall_rx(m1, c2, f, o, fill) ==
    RecCall_shape(m1, randomInt(c2, 2, Max(2, o.complexityX2 \div 3)), f, o,
                  Prim("rect", fill, o.strokeColor, <<f.depth, f.size, c2.ret>>))
RecCall_fill(m1, c1, f, o) ==
    IF c1.threw THEN Thrown(m1, c1)
    ELSE IF f.type = "circle"
    THEN RecCall_shape(m1, randomInt(c1, 2, Max(2, o.complexityX2 \div 3)), f, o,
                       Prim("circle", c1.ret, o.strokeColor, <<f.depth, f.size>>))
    ELSE RecCall_rx(m1, random(c1), f, o, c1.ret)
RecCall(m, f, o, palette) ==
    RecCall_fill([m EXCEPT !.recursionCount = m.recursionCount + 1],
                 getRandomFill(m.c, palette, o.fillType), f, o)

\* (a plausible slip: the safety limit left out of the base case)
RecEnterNoCap(m, f, o, palette) ==
    IF f.depth >= o.maxRecursion THEN m ELSE RecCall(m, f, o, palette)

\* recursiveDraw: the base case, then the call
RecEnter(m, f, o, palette) ==
    IF f.depth >= o.maxRecursion \/ m.recursionCount >= MAX_RECURSION_SAFETY
    THEN m
    ELSE RecCall(m, f, o, palette)

\* one iteration of recursiveDraw's loop over the children: the angle, the
\* distance and the type are drawn, then the child is drawn recursively
RecStep_childType(m, c3, f, o, palette) ==
    RecEnter([m EXCEPT !.c = c3,
                       !.stack = (IF f.i + 1 < f.n THEN <<[f EXCEPT !.i = f.i + 1]>>
                                  ELSE <<>>) \o Tail(m.stack)],
             [type |-> IF c3.ret < 600 THEN f.type
                       ELSE IF f.type = "circle" THEN "rect" ELSE "circle",
              size |-> f.size, depth |-> f.depth],
             o, palette)
RecStep(m, o, palette) ==
    RecStep_childType(m, MathRandomCall(randomPair(m.c)), Head(m.stack), o, palette)

\* generateRecursivePattern up to and including its recursiveDraw call on the
\* initial shape
RecStart_type(c3, o, palette, keep) ==
    RecEnter([c |-> c3, keep |-> keep, recursionCount |-> 0, appended |-> 0,
              out |-> <<>>, stack |-> <<>>],
             [type |-> IF c3.ret < 500 THEN "circle" ELSE "rect",
              size |-> (Min(o.viewportWidth, o.viewportHeight) * 4 * o.scale) \div 10,
              depth |-> 0],
             o, palette)
RecStart(c, o, palette, keep) ==
    RecStart_type(MathRandomCall(randomPair(c)), o, palette, keep)

(* ---- grid.js ---- *)

\* cellsPerSide = Math.max(2, Math.floor(complexity * 1.5 + repetition))
\* (a plausible slip: rounded up)
GridCellsPerSideCeil(o) == Max(2, (3 * o.complexityX2 + 4 * o.repetition + 3) \div 4)
GridCellsPerSide(o) == Max(2, (3 * o.complexityX2 + 4 * o.repetition) \div 4)

\* cellCount: cellsPerSide * cellsPerSide
GridCellCount(o) == GridCellsPerSide(o) * GridCellsPerSide(o)

\* the grid lines drawn when complexity > 4 && density > 30: one per row and
\* column boundary
GridLineCount(o) ==
    IF o.complexityX2 > 8 /\ o.density > 30 THEN 2 * (GridCellsPerSide(o) + 1) ELSE 0

\* elementScale = min(cellWidth, cellHeight) * 0.4 * scale * random(0.7, 1.1)
\* in thousandths of a pixel; r is the fraction drawn
GridElementScale(o, r) ==
    (((((((Min(o.viewportWidth, o.viewportHeight) * 1000) \div GridCellsPerSide(o)) * 4)
           \div 10) * o.scale) \div 10000) * (7000 + 4 * r)) \div 1000

\* innerW > 1 for the nested shape, innerW = elementScale * 1.2 * 0.6
GridInnerVisible(o, r) == 72 * GridElementScale(o, r) > 100 * 1000

\* generateGridPattern up to its loops.  The machine also carries
\* elementCount, the cells that were not skipped (filled) and the inner
\* shapes counted (nested); frame "cell" is the loop over the cells at cell
\* i, frame "lines" the grid lines.
GridStart(c, o, keep) ==
    [c |-> c, keep |-> keep, recursionCount |-> 0, appended |-> 0, out |-> <<>>,
     elementCount |-> 0, filled |-> 0, nested |-> 0,
     stack |-> <<[op |-> "cell", i |-> 0]>>]

\* the cell position <<row, col>> of frame f
GridCellAt(f, o) == <<f.i \div GridCellsPerSide(o), f.i % GridCellsPerSide(o)>>

\* the loops move on: to the next cell, or to the grid lines after the last
GridContinue(m, f, o) ==
    [m EXCEPT !.stack = <<IF f.i + 1 < GridCellCount(o) THEN [op |-> "cell", i |-> f.i + 1]
                          ELSE [op |-> "lines", i |-> 0]>> \o Tail(m.stack)]

\* elementCount++ at the end of a cell that drew inner inner shapes
\* (a plausible slip: the inner shape not counted)
GridCountedMainOnly(m, f, o, inner) ==
    [GridContinue(m, f, o) EXCEPT !.elementCount = m.elementCount + 1,
                                  !.filled = m.filled + 1,
                                  !.nested = m.nested + inner]
GridCounted(m, f, o, inner) ==
    [GridContinue(m, f, o) EXCEPT !.elementCount = m.elementCount + inner + 1,
                                  !.filled = m.filled + 1,
                                  !.nested = m.nested + inner]

\* one element appended to the cell after the draws that left c
GridCell_element(m, c, f, o, tag, fill, stroke) ==
    GridCounted(EmitAfter(m, c, Prim(tag, fill, stroke, GridCellAt(f, o))), f, o, 0)
GridCell_lineStroke(m, c6, f, o) ==
    GridCell_element(m, random(c6), f, o, "line", NoneFill, OrElse(c6.ret, o.strokeColor))
\* the nested shape: the outer circle, and the inner rect when wide enough
GridCell_nested(m, c4, f, o, fill) ==
    IF GridInnerVisible(o, c4.ret)
    THEN GridCounted(Emit(EmitAfter(m, c4, Prim("circle", NoneFill, o.strokeColor,
                                                GridCellAt(f, o))),
                          Prim("rect", fill, "none", GridCellAt(f, o))),
                     f, o, 1)
    ELSE GridCell_element(m, c4, f, o, "circle", NoneFill, o.strokeColor)
\* switch (cellContentType)
GridCell_elementScale(m, c4, f, o, palette, cellContentType, fill) ==
    CASE cellContentType = 0 ->
            GridCell_element(m, c4, f, o, "circle", fill, o.strokeColor)
      [] cellContentType = 1 ->
            GridCell_element(m, random(randomPair(c4)), f, o, "rect", fill, o.strokeColor)
      [] cellContentType = 2 ->
            GridCell_lineStroke(m, randomChoice(random(c4), palette), f, o)
      [] cellContentType = 3 ->
            GridCell_element(m, randomInt(c4, 3, 7), f, o, "polygon", fill, o.strokeColor)
      [] cellContentType = 4 ->
            GridCell_element(m, randomPair(c4), f, o, "ellipse", fill, o.strokeColor)
      [] cellContentType = 5 -> GridCell_nested(m, c4, f, o, fill)
      [] OTHER -> GridCounted([m EXCEPT !.c = c4], f, o, 0)
GridCell_fill(m, c3, f, o, palette, cellContentType) ==
    IF c3.threw THEN Thrown(m, c3)
    ELSE GridCell_elementScale(m, random(c3), f, o, palette, cellContentType, c3.ret)
GridCell_contentType(m, c2, f, o, palette) ==
    GridCell_fill(m, getRandomFill(c2, palette, o.fillType), f, o, palette, c2.ret)
\* Math.random() < densityThreshold, densityThreshold = 1 - density / 100
GridCell_skip(m, c1, f, o, palette) ==
    IF c1.ret < 10 * (100 - o.density) THEN GridContinue([m EXCEPT !.c = c1], f, o)
    ELSE GridCell_contentType(m, randomInt(c1, 0, 5), f, o, palette)

\* the grid lines, each counted
GridLines(m, o) ==
    [m EXCEPT !.stack = Tail(m.stack),
              !.elementCount = m.elementCount + GridLineCount(o),
              !.appended = m.appended + GridLineCount(o),
              !.out = IF m.keep
                      THEN m.out \o [k \in 1..GridLineCount(o) |->
                                        Prim("line", NoneFill, o.strokeColor, <<-1, k>>)]
                      ELSE m.out]

\* one cell of generateGridPattern's loops, or its grid lines
GridStep(m, o, palette) ==
    IF Head(m.stack).op = "lines" THEN GridLines(m, o)
    ELSE GridCell_skip(m, MathRandomCall(m.c), Head(m.stack), o, palette)

(* ---- dispatch ---- *)

StrategyStart(c, o, palette, keep) ==
    IF o.patternType = "recursive" THEN RecStart(c, o, palette, keep)
    ELSE IF o.patternType = "grid" THEN GridStart(c, o, keep)
    ELSE QuadStart(c, o, keep)

StrategyStep(m, o, palette) ==
    IF o.patternType = "recursive" THEN RecStep(m, o, palette)
    ELSE IF o.patternType = "grid" THEN GridStep(m, o, palette)
    ELSE QuadStep(m, o, palette)

\* the cells the grid strategy filled and the inner shapes it counted
Filled(m, o) ==
    IF o.patternType = "grid" THEN [cells |-> m.filled, nested |-> m.nested]
    ELSE [cells |-> 0, nested |-> 0]

\* result.elementCount of the strategy that has returned
ElementCount(m, o) ==
    IF o.patternType = "grid" THEN m.elementCount ELSE m.recursionCount

\* the strategy run to its return (or to the exception)
RECURSIVE StrategyRun(_, _, _)
StrategyRun(m, o, palette) ==
    IF m.stack = <<>> THEN m ELSE StrategyRun(StrategyStep(m, o, palette), o, palette)

-----------------------------------------------------------------------------
(* Palette resolution (colorUtils.js getColorPalette).
   A hex value is what `c?.hex` evaluates to: a string (a sequence of
   characters), a number, or undefined.  state.allColors is a sequence of
   <<key, value>> entries in insertion order; a value is an array of hex
   values or something that is no array.                                    *)

Str(chars) == [type |-> "string", s |-> chars]
NumberValue == [type |-> "number", s |-> <<>>]
UndefinedValue == [type |-> "undefined", s |-> <<>>]

HexDigits == {"0", "1", "2", "3", "4", "5", "6", "7", "8", "9",
              "a", "b", "c", "d", "e", "f", "A", "B", "C", "D", "E", "F"}

\* typeof hex === 'string' && /^#[0-9A-F]{6}$/i.test(hex)
IsValidHexLoose(v) == v.type = "string" /\ Len(v.s) >= 1 /\ v.s[1] = "#"
IsValidHex(v) ==
    /\ v.type = "string"
    /\ Len(v.s) = 7
    /\ v.s[1] = "#"
    /\ \A i \in 2..7 : v.s[i] \in HexDigits

\* Boolean(v): undefined and the empty string are falsy
Truthy(v) == v.type = "number" \/ (v.type = "string" /\ v.s # <<>>)

Lookup(allColors, key) ==
    LET hits == SelectSeq(allColors, LAMBDA e : e[1] = key)
    IN  IF hits = <<>> THEN [isArray |-> FALSE, present |-> FALSE, items |-> <<>>]
        ELSE [isArray |-> hits[1][2].isArray, present |-> TRUE, items |-> hits[1][2].items]

Keys(allColors) == [i \in 1..Len(allColors) |-> allColors[i][1]]

\* .map(c => c?.hex).filter(Boolean)
HexOf(items) == SelectSeq(items, Truthy)

\* s in the order perm ranks its positions (perm permutes 1..n, n >= Len(s))
Permute(s, perm) ==
    LET idx == SelectSeq(perm, LAMBDA k : k <= Len(s))
    IN  [i \in 1..Len(s) |-> s[idx[i]]]

RgbFallback == <<Str(<<"#", "F", "F", "0", "0", "0", "0">>),
                 Str(<<"#", "0", "0", "F", "F", "0", "0">>),
                 Str(<<"#", "0", "0", "0", "0", "F", "F">>)>>
SixFallback == RgbFallback \o
               <<Str(<<"#", "F", "F", "F", "F", "0", "0">>),
                 Str(<<"#", "0", "0", "F", "F", "F", "F">>),
                 Str(<<"#", "F", "F", "0", "0", "F", "F">>)>>
SafetyFallback == <<Str(<<"#", "3", "3", "3", "3", "3", "3">>),
                    Str(<<"#", "6", "6", "6", "6", "6", "6">>),
                    Str(<<"#", "9", "9", "9", "9", "9", "9">>),
                    Str(<<"#", "C", "C", "C", "C", "C", "C">>)>>
UltimateFallback == <<Str(<<"#", "4", "4", "4", "4", "4", "4">>),
                      Str(<<"#", "8", "8", "8", "8", "8", "8">>),
                      Str(<<"#", "B", "B", "B", "B", "B", "B">>)>>

\* the branch of getColorPalette's try block.  q is the call's input:
\*   q.allColors, q.category, q.paletteName   state and the two selects
\*   q.r      the value secureRandom delivers (thousandths)
\*   q.perm   the order Array.prototype.sort leaves under the random comparator
SelectPalette(q) ==
    LET cat == Lookup(q.allColors, q.category)
    IN  IF q.paletteName = "random_palette"
        THEN LET keys == Keys(q.allColors)
                 i == (q.r * Len(keys)) \div 1000
                 chosen == IF i < Len(keys) THEN Lookup(q.allColors, keys[i + 1])
                           ELSE Lookup(q.allColors, Undefined)
             IN  IF chosen.isArray THEN HexOf(chosen.items) ELSE <<>>
        ELSE IF q.paletteName = "random_in_category" /\ q.category # "random_category"
        THEN IF cat.isArray
             THEN LET categoryColors == Permute(HexOf(cat.items), q.perm)
                      n == Len(categoryColors)
                      subsetSize == 5 + ((q.r * (Min(10, n) + 1 - 5)) \div 1000)
                  IN  SubSeq(categoryColors, 1, Min(n, Max(0, subsetSize)))
             ELSE <<>>
        ELSE IF cat.present /\ cat.isArray THEN HexOf(cat.items)
        ELSE SixFallback

\* the last filter of getColorPalette
FinalFilterLoose(sel) == SelectSeq(sel, IsValidHexLoose)
FinalFilter(sel) == SelectSeq(sel, IsValidHex)

\* getColorPalette(): the value returned and stored in state.currentPalette
getColorPalette_valid(valid) == IF Len(valid) = 0 THEN UltimateFallback ELSE valid
getColorPalette_selected(selected) ==
    getColorPalette_valid(FinalFilter(IF Len(selected) = 0 THEN SafetyFallback
                                      ELSE selected))
getColorPalette(q) ==
    IF ~q.domReady THEN RgbFallback
    ELSE IF Len(q.allColors) = 0 THEN RgbFallback
    ELSE getColorPalette_selected(SelectPalette(q))

RECURSIVE Css(_)
Css(chars) == IF chars = <<>> THEN "" ELSE Head(chars) \o Css(Tail(chars))

\* the palette as the strategies receive it: an array of colour strings
CssPalette(p) == [i \in 1..Len(p) |-> Css(p[i].s)]

-----------------------------------------------------------------------------
(* generateSVG (generator.js) *)

\* an element of the drawing: prim placed in layer group `layer` (-1: a direct
\* child of the svg), created by the generateSVG call numbered `call`
Place(prim, layer, call) ==
    [tag |-> prim.tag, fill |-> prim.fill, stroke |-> prim.stroke,
     args |-> prim.args, layer |-> layer, call |-> call]

PlaceAll(prims, layer, call) == [i \in 1..Len(prims) |-> Place(prims[i], layer, call)]

\* the options of layer `layer`: complexity (doubled), density, and
\* strokeWeight, opacity and scale (in thousandths) decay with the layer index
LayerOptions(o, layer) ==
    IF layer = 0 THEN o
    ELSE [o EXCEPT !.complexityX2 = Max(2, o.complexityX2 - 3 * layer),
                   !.density = Max(1, o.density - 15 * layer),
                   !.strokeWeight =
                       Max(100, (o.strokeWeight * (100 - 25 * layer)) \div 100),
                   !.opacity = Max(100, (o.opacity * (100 - 20 * layer)) \div 100),
                   !.scale = (o.scale * (100 - 15 * layer)) \div 100]

\* the layer loop inside generateSVG's try block, from layer `layer` on.
\* r.c is the context, r.tree the elements appended so far, r.total
\* totalElements, r.threw whether a strategy raised.
RECURSIVE LayerLoop(_, _, _, _, _)
LayerLoop_result(r, m, grown, o, palette, layer, call) ==
    IF m.c.threw
    THEN [r EXCEPT !.c = m.c, !.tree = grown, !.threw = TRUE]
    ELSE LayerLoop([r EXCEPT !.c = m.c, !.tree = grown,
                             !.total = r.total + ElementCount(m, o),
                             !.filled = r.filled + Filled(m, o).cells,
                             !.nested = r.nested + Filled(m, o).nested],
                   o, palette, layer + 1, call)
LayerLoop_strategy(r, m, o, palette, layer, call) ==
    LayerLoop_result(r, m,
                     r.tree \o <<Place(Prim("g", NoneFill, "", <<layer>>), -1, call)>>
                            \o PlaceAll(m.out, layer, call),
                     o, palette, layer, call)
LayerLoop_options(r, lo, o, palette, layer, call) ==
    LayerLoop_strategy(r, StrategyRun(StrategyStart(r.c, lo, palette, TRUE), lo, palette),
                       o, palette, layer, call)
LayerLoop(r, o, palette, layer, call) ==
    IF layer >= o.layerCount THEN r
    ELSE LayerLoop_options(r, LayerOptions(o, layer), o, palette, layer, call)

\* the context a pass generates in: Math.random is the seeded generator
PassContext(o, e, now) ==
    [src |-> "seeded", lcg |-> LcgSeed(SeedFor(o.seedOverride, now)),
     crypto |-> e.crypto, tape |-> e.tape, pos |-> e.pos,
     fromLcg |-> 0, fromOther |-> 0, now |-> now,
     defs |-> <<>>, threw |-> FALSE, ret |-> 0]

\* --- Clear SVG ---, --- Set Background ---: the drawing before the layers
ClearedTree(o, call) ==
    IF o.bgColor # "#FFFFFF"
    THEN <<Place(Prim("rect", ColorFill(o.bgColor), "", <<>>), -1, call)>>
    ELSE <<>>

\* generateSVG from the clearing of the drawing to the end of the layer loop
Generate(o, palette, e, now, call) ==
    LayerLoop([c |-> PassContext(o, e, now), tree |-> ClearedTree(o, call),
               total |-> 0, threw |-> FALSE, filled |-> 0, nested |-> 0],
              o, palette, 0, call)

\* dom.defs.innerHTML = '' followed by what the pass registered
\* (a plausible slip: the registry not cleared)
RegistryAfterKeep(old, registered, call) ==
    old \o [i \in 1..Len(registered) |-> [call |-> call, def |-> registered[i]]]
RegistryAfter(old, registered, call) ==
    [i \in 1..Len(registered) |-> [call |-> call, def |-> registered[i]]]

\* the catch block: the diagnostic text, updateMathInfo({error}),
\* updateSVGStats(0)
\* (a plausible slip: the partial count reported)
OnErrorPartial(r, call) ==
    [tree |-> Append(r.tree, Place(Prim("text", ColorFill("red"), "", <<>>), -1, call)),
     ui |-> [stats |-> r.total, panelTotal |-> 0, panelError |-> TRUE],
     rethrown |-> FALSE]
OnError(r, call) ==
    [tree |-> Append(r.tree, Place(Prim("text", ColorFill("red"), "", <<>>), -1, call)),
     ui |-> [stats |-> 0, panelTotal |-> 0, panelError |-> TRUE],
     rethrown |-> FALSE]

\* the finally block: Math.random = originalRandom
\* (a plausible slip: the restore at the end of the try block instead)
RestoredOnSuccessOnly(originalRandom, installed, threw) ==
    IF threw THEN installed ELSE originalRandom
Restored(originalRandom, installed, threw) == originalRandom

(* ---- animation ---- *)

\* stopAnimation(): a is [isAnimating, animationFrame, pending]
\* (a plausible slip: the flag cleared only when no handle was stored)
stopAnimationElse(a) ==
    IF a.animationFrame # 0
    THEN [a EXCEPT !.animationFrame = 0,
                   !.pending = {p \in a.pending : p.h # a.animationFrame}]
    ELSE [a EXCEPT !.isAnimating = FALSE]
\* (a plausible slip: the flag cleared but the frame not cancelled)
stopAnimationNoCancel(a) ==
    [a EXCEPT !.animationFrame = 0, !.isAnimating = FALSE]
stopAnimation(a) ==
    LET a1 == IF a.animationFrame # 0
              THEN [a EXCEPT !.animationFrame = 0,
                             !.pending = {p \in a.pending : p.h # a.animationFrame}]
              ELSE a
    IN  IF a1.isAnimating THEN [a1 EXCEPT !.isAnimating = FALSE] ELSE a1

\* the elements startAnimation's querySelectorAll snapshots
Animated(t, bgColor) ==
    SelectSeq(t, LAMBDA el :
        /\ el.tag \in {"circle", "rect", "ellipse", "polygon", "path", "line"}
        /\ ~(el.tag = "rect" /\ el.fill.kind = "color" /\ el.fill.color = bgColor))

\* startAnimation(), called by generateSVG call `call`; h is the handle the
\* host returns for the request
\* (a plausible slip: the frame requested without the flag being set)
startAnimationNoFlag(a, o, t, call, h) ==
    IF ~o.animation \/ a.isAnimating THEN a
    ELSE IF Len(Animated(t, o.bgColor)) = 0 THEN a
    ELSE [isAnimating |-> FALSE, animationFrame |-> h,
          pending |-> a.pending \cup {[h |-> h, owner |-> call]}]
startAnimation(a, o, t, call, h) ==
    IF ~o.animation \/ a.isAnimating THEN a
    ELSE IF Len(Animated(t, o.bgColor)) = 0 THEN a
    ELSE [isAnimating |-> TRUE, animationFrame |-> h,
          pending |-> a.pending \cup {[h |-> h, owner |-> call]}]

-----------------------------------------------------------------------------
(* The page as a state machine: the handlers main.js registers (the
   generate button, the stop button) and the host's frame callbacks.        *)

CryptoValues == {0, 500, 1000}
Tapes == [1..TapeLen -> CryptoValues]

ThreeColours == <<<<"catA", [isArray |-> TRUE,
                             items |-> <<Str(<<"#", "1", "1", "1", "1", "1", "1">>),
                                         Str(<<"#", "2", "2", "2", "2", "2", "2">>),
                                         Str(<<"#", "3", "3", "3", "3", "3", "3">>)>>]>>>>

\* the options getOptions can read off the controls, within the bounds
OptionSpace ==
    [patternType : {"quadtree"},
     fillType : {"solid", "gradient", "pattern"},
     seedOverride : {<<>>, <<49, 50>>},
     layerCount : 1..MaxLayers,
     animation : BOOLEAN,
     complexityX2 : {12},
     density : {70},
     maxRecursion : {2},
     strokeWeight : {1000},
     opacity : {900},
     scale : {1000},
     viewportWidth : {800},
     viewportHeight : {600},
     bgColor : {"#FFFFFF"},
     strokeColor : {"#264651"}]

NoOptions ==
    [patternType |-> "", fillType |-> "", seedOverride |-> <<>>, layerCount |-> 0,
     animation |-> FALSE, complexityX2 |-> 0, density |-> 0, maxRecursion |-> 0,
     strokeWeight |-> 0, opacity |-> 0,
     scale |-> 0, viewportWidth |-> 0, viewportHeight |-> 0, bgColor |-> "",
     strokeColor |-> ""]

RunIdle == [phase |-> "off"]
PalIdle == [phase |-> "off"]
PathIdle == [phase |-> "off"]
UnitIdle == [phase |-> "off"]

\* state.svgData: null, or the outerHTML of the canvas (the drawing and the
\* registry inside it)
NoSvgData == [stored |-> FALSE, tree |-> <<>>, defs |-> <<>>]

PageInit ==
    /\ mathRandom = "native"
    /\ tree = <<>>
    /\ defs = <<>>
    /\ isAnimating = FALSE
    /\ animationFrame = 0
    /\ pending = {}
    /\ nextHandle = 1
    /\ currentOptions = NoOptions
    /\ mathInfo = [generator |-> "", layers |-> 0, totalElements |-> 0]
    /\ ui = [stats |-> -1, panelTotal |-> -1, panelError |-> FALSE]
    /\ generationCount = 0
    /\ svgData = NoSvgData
    /\ last = [calls |-> 0, genCall |-> 0, outcome |-> "none",
               randomAtEntry |-> "native", rethrown |-> FALSE,
               fromLcg |-> 0, fromOther |-> 0, filled |-> 0, nested |-> 0,
               stale |-> FALSE,
               op |-> "none", frames |-> 0,
               prevOptions |-> NoOptions, prevTree |-> <<>>]

Init ==
    /\ PageInit
    /\ env \in [crypto : BOOLEAN, tape : Tapes, pos : {1}, now : {1000},
                colors : {ThreeColours}]
    /\ run = RunIdle
    /\ pal = PalIdle
    /\ path = PathIdle
    /\ unit = UnitIdle

Anim == [isAnimating |-> isAnimating, animationFrame |-> animationFrame,
         pending |-> pending]

SetAnim(a) ==
    /\ isAnimating' = a.isAnimating
    /\ animationFrame' = a.animationFrame
    /\ pending' = a.pending

\* getColorPalette() as generateSVG calls it: the category select on "catA",
\* the palette select on the category's own entry
PagePalette ==
    CssPalette(getColorPalette([domReady |-> TRUE, allColors |-> env.colors,
                                category |-> "catA", paletteName |-> "catA",
                                r |-> 0, perm |-> <<1, 2, 3>>]))

\* (a plausible slip: the options tested after the drawing was cleared)
GenerateSVGAbortAfterClear ==
    /\ last.calls < MaxPasses
    /\ SetAnim(stopAnimation(Anim))
    /\ tree' = <<>>
    /\ defs' = <<>>
    /\ last' = [last EXCEPT !.calls = last.calls + 1, !.outcome = "aborted",
                            !.randomAtEntry = mathRandom, !.op = "generate"]
    /\ UNCHANGED <<mathRandom, env, nextHandle, currentOptions,
                   mathInfo, ui, generationCount, svgData,
                   run, pal, path, unit>>

\* generateSVG() returning early: the canvas or <defs> is not cached, or
\* getOptions() returns null
GenerateSVGAbort ==
    /\ last.calls < MaxPasses
    /\ SetAnim(stopAnimation(Anim))
    /\ last' = [last EXCEPT !.calls = last.calls + 1, !.outcome = "aborted",
                            !.randomAtEntry = mathRandom, !.op = "generate"]
    /\ UNCHANGED <<mathRandom, env, tree, defs, nextHandle, currentOptions,
                   mathInfo, ui, generationCount, svgData,
                   run, pal, path, unit>>

\* the statements of the try block that follow the layer loop (state.mathInfo,
\* state.svgData, state.generationCount++, startAnimation()) run only when
\* the loop did not throw: the value of a field they assign
\* (a plausible slip: the statements placed in the finally block)
AfterLoopAlways(threw, before, after) == after
AfterLoop(threw, before, after) == IF threw THEN before ELSE after

\* generateSVG() past its early returns, as a function of the page before
\* the call: every field the call assigns
GenerateOutcome_finally(r, caught, a1, o, now, call) ==
    [env |-> [env EXCEPT !.pos = r.c.pos, !.now = now],
     defs |-> RegistryAfter(defs, r.c.defs, call),
     tree |-> IF r.threw THEN caught.tree ELSE r.tree,
     ui |-> IF r.threw THEN caught.ui
            ELSE [stats |-> r.total, panelTotal |-> r.total, panelError |-> FALSE],
     mathInfo |-> AfterLoop(r.threw, mathInfo,
                            [generator |-> o.patternType, layers |-> o.layerCount,
                             totalElements |-> r.total]),
     generationCount |-> AfterLoop(r.threw, generationCount, generationCount + 1),
     svgData |-> AfterLoop(r.threw, svgData,
                           [stored |-> TRUE, tree |-> r.tree,
                            defs |-> RegistryAfter(defs, r.c.defs, call)]),
     anim |-> a1,
     nextHandle |-> IF a1.animationFrame # 0 THEN nextHandle + 1 ELSE nextHandle,
     mathRandom |-> Restored(mathRandom, "seeded", r.threw),
     last |-> [last EXCEPT !.calls = call, !.genCall = call,
                           !.outcome = IF r.threw THEN "failed" ELSE "ok",
                           !.randomAtEntry = mathRandom,
                           !.rethrown = r.threw /\ caught.rethrown,
                           !.fromLcg = r.c.fromLcg,
                           !.fromOther = r.c.fromOther,
                           !.filled = r.filled,
                           !.nested = r.nested,
                           !.op = "generate",
                           !.prevOptions = currentOptions,
                           !.prevTree = tree]]
GenerateOutcome_try(r, a0, o, now, call) ==
    GenerateOutcome_finally(r, OnError(r, call),
                            AfterLoop(r.threw, a0,
                                      startAnimation(a0, o, r.tree, call, nextHandle)),
                            o, now, call)
GenerateOutcome(o, now, call) ==
    GenerateOutcome_try(Generate(o, PagePalette, env, now, call), stopAnimation(Anim),
                        o, now, call)

\* generateSVG() with options o read from the controls at time `now`
GenerateSVG(o, now) ==
    /\ last.calls < MaxPasses
    /\ \E out \in {GenerateOutcome(o, now, last.calls + 1)} :
           /\ currentOptions' = o
           /\ env' = out.env
           /\ defs' = out.defs
           /\ tree' = out.tree
           /\ ui' = out.ui
           /\ mathInfo' = out.mathInfo
           /\ generationCount' = out.generationCount
           /\ svgData' = out.svgData
           /\ SetAnim(out.anim)
           /\ nextHandle' = out.nextHandle
           /\ mathRandom' = out.mathRandom
           /\ last' = out.last
    /\ UNCHANGED <<run, pal, path, unit>>

\* the stop button: stopAnimation()
StopAnimationClick ==
    /\ SetAnim(stopAnimation(Anim))
    /\ last' = [last EXCEPT !.op = "stop"]
    /\ UNCHANGED <<mathRandom, env, tree, defs, nextHandle, currentOptions,
                   mathInfo, ui, generationCount, svgData,
                   run, pal, path, unit>>

\* the host runs the pending callback p (animateFrame of the loop that
\* generateSVG call p.owner started)
FrameCallback(p) ==
    /\ p \in pending
    /\ last.frames < MaxFrames
    /\ IF ~isAnimating
       THEN /\ pending' = pending \ {p}
            /\ last' = [last EXCEPT !.op = "frame", !.frames = last.frames + 1]
            /\ UNCHANGED <<isAnimating, animationFrame, nextHandle>>
       ELSE /\ pending' = (pending \ {p}) \cup {[h |-> nextHandle, owner |-> p.owner]}
            /\ animationFrame' = nextHandle
            /\ nextHandle' = nextHandle + 1
            /\ last' = [last EXCEPT !.op = "frame", !.frames = last.frames + 1,
                                    !.stale = last.stale \/ p.owner < last.calls]
            /\ UNCHANGED isAnimating
    /\ UNCHANGED <<mathRandom, env, tree, defs, currentOptions, mathInfo, ui,
                   generationCount, svgData, run, pal, path, unit>>

Next ==
    \/ \E o \in OptionSpace : GenerateSVG(o, env.now + 1)
    \/ GenerateSVGAbort
    \/ StopAnimationClick
    \/ \E p \in pending : FrameCallback(p)

Spec == Init /\ [][Next]_vars

-----------------------------------------------------------------------------
(* Path serializer (utils.js).  Points carry integer pixel coordinates; a
   formatted number is carried in hundredths until toFixed(2) prints it; the
   spline tension is carried in tenths.                                      *)

\* Number.prototype.toFixed(2) of h/100
Fixed2(h) ==
    LET a == Abs(h)
    IN  (IF h < 0 THEN "-" ELSE "") \o ToString(a \div 100) \o "."
            \o ToString((a % 100) \div 10) \o ToString(a % 10)

\* p + d * t / 3 in hundredths, rounded to the nearest hundredth as toFixed
\* does (n/3 is never half-way between two integers)
ControlPoint(p, d, tensionX10) == 100 * p + ((2 * (10 * d * tensionX10) + 3) \div 6)

\* A string under construction is kept as the sequence of the pieces appended
\* to it: a piece is a path command (cmd names its letter) or a separator
\* (cmd is empty); Text is the string itself.
Piece(cmd, text) == [cmd |-> cmd, text |-> text]

RECURSIVE Text(_)
Text(pieces) == IF pieces = <<>> THEN "" ELSE Head(pieces).text \o Text(Tail(pieces))

\* the loop of pointsToCubicBezierString from index i on (pts is 0-based in
\* the code: pts[k] there is pts[k + 1] here)
RECURSIVE CubicSegments(_, _, _)
CubicSegments(pts, i, tensionX10) ==
    IF i >= Len(pts) - 2 THEN <<>>
    ELSE LET p0 == pts[i]
             p1 == pts[i + 1]
             p2 == pts[i + 2]
             p3 == pts[i + 3]
             cp1x == ControlPoint(p1.x, p2.x - p0.x, tensionX10)
             cp1y == ControlPoint(p1.y, p2.y - p0.y, tensionX10)
             cp2x == ControlPoint(p2.x, -(p3.x - p1.x), tensionX10)
             cp2y == ControlPoint(p2.y, -(p3.y - p1.y), tensionX10)
         IN  <<Piece("C", " C " \o Fixed2(cp1x) \o " " \o Fixed2(cp1y) \o ", "
                              \o Fixed2(cp2x) \o " " \o Fixed2(cp2y) \o ", "
                              \o Fixed2(100 * p2.x) \o " " \o Fixed2(100 * p2.y))>>
                 \o CubicSegments(pts, i + 1, tensionX10)

pointsToCubicBezierString(points, tensionX10) ==
    IF Len(points) < 2 THEN <<>>
    ELSE CubicSegments(<<points[1]>> \o points \o <<points[Len(points)]>>, 1, tensionX10)

\* points.slice(1).map(p => `L x y`).join(' '), from index i on
RECURSIVE LineSegments(_, _)
LineSegments(points, i) ==
    IF i > Len(points) THEN <<>>
    ELSE <<Piece("L", "L " \o Fixed2(100 * points[i].x) \o " " \o Fixed2(100 * points[i].y))>>
             \o (IF i < Len(points) THEN <<Piece("", " ")>> ELSE <<>>)
             \o LineSegments(points, i + 1)

\* (a plausible slip: the first point not sliced off the line segments)
pointsToPathPiecesNoSlice(points, smoothingType, tensionX10, closePath) ==
    IF Len(points) < 2 THEN <<>>
    ELSE <<Piece("M", "M " \o Fixed2(100 * points[1].x) \o " " \o Fixed2(100 * points[1].y))>>
             \o (IF smoothingType = "cubic_bezier"
                 THEN pointsToCubicBezierString(points, tensionX10)
                 ELSE LineSegments(points, 1))
             \o (IF closePath THEN <<Piece("Z", " Z")>> ELSE <<>>)

\* pointsToPathString: the pieces appended to d, in order
pointsToPathPieces(points, smoothingType, tensionX10, closePath) ==
    IF Len(points) < 2 THEN <<>>
    ELSE <<Piece("M", "M " \o Fixed2(100 * points[1].x) \o " " \o Fixed2(100 * points[1].y))>>
             \o (IF smoothingType = "cubic_bezier"
                 THEN pointsToCubicBezierString(points, tensionX10)
                 ELSE LineSegments(points, 2))
             \o (IF closePath THEN <<Piece("Z", " Z")>> ELSE <<>>)

\* (a plausible slip: the guard admitting a single point)
pointsToPathStringOnePoint(points, smoothingType, tensionX10, closePath) ==
    IF Len(points) < 1 THEN ""
    ELSE "M " \o Fixed2(100 * points[1].x) \o " " \o Fixed2(100 * points[1].y)
             \o Text(IF smoothingType = "cubic_bezier"
                     THEN pointsToCubicBezierString(points, tensionX10)
                     ELSE LineSegments(points, 2))
             \o (IF closePath THEN " Z" ELSE "")

pointsToPathString(points, smoothingType, tensionX10, closePath) ==
    Text(pointsToPathPieces(points, smoothingType, tensionX10, closePath))

\* the command letters of a path string, in order
Commands(pieces) ==
    [i \in 1..Len(SelectSeq(pieces, LAMBDA p : p.cmd # "")) |->
        SelectSeq(pieces, LAMBDA p : p.cmd # "")[i].cmd]

-----------------------------------------------------------------------------
(* One strategy invocation, stepped call by call: the strategy is started
   on layer-0 options and its recursion is advanced one call at a time.      *)

\* extremes of the sliders the strategies read
RunOptionSpace ==
    [patternType : {"quadtree", "recursive"},
     fillType : {"solid"},
     seedOverride : {<<>>},
     layerCount : {1},
     animation : {FALSE},
     complexityX2 : {2, 40},
     density : {1, 100},
     maxRecursion : {1, 10},
     strokeWeight : {1000},
     opacity : {900},
     scale : {1000},
     viewportWidth : {800},
     viewportHeight : {600},
     bgColor : {"#FFFFFF"},
     strokeColor : {"#264651"}]

InitRecursion ==
    /\ PageInit
    /\ env \in [crypto : BOOLEAN, tape : Tapes, pos : {1}, now : {1000},
                colors : {ThreeColours}]
    /\ run \in [phase : {"ready"}, o : RunOptionSpace]
    /\ pal = PalIdle
    /\ path = PathIdle
    /\ unit = UnitIdle

\* the strategy function is entered
RunStart ==
    /\ run.phase = "ready"
    /\ run' = [phase |-> "on", o |-> run.o,
               m |-> StrategyStart(PassContext(run.o, env, env.now), run.o,
                                   PagePalette, FALSE)]
    /\ UNCHANGED <<pageVars, pal, path, unit>>

\* the next call of the recursion is made
RunStep ==
    /\ run.phase = "on"
    /\ run.m.stack # <<>>
    /\ run' = [run EXCEPT !.m = StrategyStep(run.m, run.o, PagePalette)]
    /\ UNCHANGED <<pageVars, pal, path, unit>>

NextRecursion ==
    \/ RunStart
    \/ RunStep

SpecRecursion == InitRecursion /\ [][NextRecursion]_vars

-----------------------------------------------------------------------------
(* getColorPalette on one input *)

\* entries of a colour category
MaxItems == 2

\* what an entry's hex can be: well-formed in either case, too short, without
\* the hash, with a digit that is none, too long, empty, a number, missing
HexSamples ==
    {Str(<<"#", "A", "B", "1", "2", "E", "F">>),
     Str(<<"#", "a", "b", "1", "2", "e", "f">>),
     Str(<<"#", "F", "F", "F">>),
     Str(<<"F", "F", "0", "0", "0", "0", "0">>),
     Str(<<"#", "G", "G", "0", "0", "0", "0">>),
     Str(<<"#", "F", "F", "0", "0", "0", "0", "0">>),
     Str(<<>>),
     NumberValue,
     UndefinedValue}

PaletteItems == UNION {[1..n -> HexSamples] : n \in 0..MaxItems}

ColourMaps ==
    {<<>>}
    \cup {<<<<"catA", [isArray |-> TRUE, items |-> it]>>>> : it \in PaletteItems}
    \cup {<<<<"catB", [isArray |-> FALSE, items |-> <<>>]>>,
            <<"catA", [isArray |-> TRUE, items |-> it]>>>> : it \in PaletteItems}

PaletteInputs ==
    [domReady : BOOLEAN,
     allColors : ColourMaps,
     category : {"catA", "catB", "catZ", "random_category"},
     paletteName : {"catA", "random_palette", "random_in_category", "fallback"},
     r : CryptoValues,
     perm : {f \in [1..MaxItems -> 1..MaxItems] : Range(f) = 1..MaxItems}]

QuietEnv ==
    [crypto |-> TRUE, tape |-> [i \in 1..TapeLen |-> 0], pos |-> 1, now |-> 1000,
     colors |-> ThreeColours]

InitPalette ==
    /\ PageInit
    /\ env = QuietEnv
    /\ run = RunIdle
    /\ pal \in [phase : {"in"}, q : PaletteInputs]
    /\ path = PathIdle
    /\ unit = UnitIdle

PaletteCall ==
    /\ pal.phase = "in"
    /\ pal' = [phase |-> "out", q |-> pal.q, result |-> getColorPalette(pal.q)]
    /\ UNCHANGED <<pageVars, run, path, unit>>

NextPalette == PaletteCall

SpecPalette == InitPalette /\ [][NextPalette]_vars

-----------------------------------------------------------------------------
(* pointsToPathString on one input *)

\* points in a list
MaxPoints == 3

PathPoints == [x : {0, 10, 20}, y : {0, 7}]

PathInputs ==
    [phase : {"in"},
     points : UNION {[1..n -> PathPoints] : n \in 0..MaxPoints},
     smoothingType : {"straight", "cubic_bezier", "quadratic_bezier", "cubic"},
     tensionX10 : {5},
     closePath : BOOLEAN]

InitPath ==
    /\ PageInit
    /\ env = QuietEnv
    /\ run = RunIdle
    /\ pal = PalIdle
    /\ path \in PathInputs
    /\ unit = UnitIdle

PathCall ==
    /\ path.phase = "in"
    /\ path' = [phase |-> "out", points |-> path.points,
                smoothingType |-> path.smoothingType,
                tensionX10 |-> path.tensionX10, closePath |-> path.closePath,
                d |-> pointsToPathString(path.points, path.smoothingType,
                                         path.tensionX10, path.closePath),
                cmds |-> Commands(pointsToPathPieces(path.points, path.smoothingType,
                                                     path.tensionX10, path.closePath))]
    /\ UNCHANGED <<pageVars, run, pal, unit>>

NextPath == PathCall

SpecPath == InitPath /\ [][NextPath]_vars

-----------------------------------------------------------------------------
(* Passes of the grid strategy: the generate button pressed with the grid
   selected in the pattern control.                                         *)

GridOptionSpace ==
    [patternType : {"grid"},
     fillType : {"solid", "gradient", "none"},
     seedOverride : {<<>>, <<52, 50>>},
     layerCount : {1},
     animation : {FALSE},
     complexityX2 : {8, 10},
     density : {70},
     repetition : {1},
     maxRecursion : {2},
     strokeWeight : {1000},
     opacity : {900},
     scale : {1000},
     viewportWidth : {800},
     viewportHeight : {600},
     bgColor : {"#FFFFFF"},
     strokeColor : {"#264651"}]

GenerateGrid == \E o \in GridOptionSpace : GenerateSVG(o, env.now + 1)

NextGrid == GenerateGrid

SpecGrid == Init /\ [][NextGrid]_vars

-----------------------------------------------------------------------------
(* The integer-sequence strategies (Padovan.js, Recaman.js), stepped one
   loop iteration at a time.  u is the invocation:
     u.fn           "padovan" or "recaman"
     u.o            the layer's options
     u.numTerms     numTerms
     u.sequence     sequence (0-based in the code: sequence[k] there is
                    u.sequence[k + 1] here)
     u.usedNumbers  usedNumbers
     u.n            the loop variable
     u.stopped      the loop was left by its break
     u.result       what the strategy returned                              *)

SEQUENCE_LIMIT == 1000000

NoResult == [returned |-> FALSE, elementCount |-> 0, terms |-> 0]

\* numTerms = Math.max(10, Math.floor(complexity * 3 + density / 5) + 5)
PadovanNumTerms(o) == Max(10, ((15 * o.complexityX2 + 2 * o.density) \div 10) + 5)

\* generatePadovanPattern up to its loop
PadovanEnter(o) ==
    [fn |-> "padovan", phase |-> "loop", o |-> o, numTerms |-> PadovanNumTerms(o),
     sequence |-> <<1, 1, 1>>, usedNumbers |-> {}, n |-> 3, stopped |-> FALSE,
     result |-> NoResult]

\* (a plausible slip: the Fibonacci recurrence)
PadovanTermFibonacci(sequence, n) == sequence[n] + sequence[n - 1]
\* sequence[n - 2] + sequence[n - 3]
PadovanTerm(sequence, n) == sequence[n - 1] + sequence[n - 2]

\* whether the loop is left after storing term
\* (a plausible slip: no limit on the terms)
ExceedsNever(term) == FALSE
Exceeds(term) == term > SEQUENCE_LIMIT

\* the sequence loop's body once the term is known: store it, then break
\* or count on
SequenceStore(u, term) ==
    [u EXCEPT !.sequence = Append(u.sequence, term),
              !.usedNumbers = IF u.fn = "recaman" THEN u.usedNumbers \cup {term}
                              ELSE u.usedNumbers,
              !.stopped = Exceeds(term),
              !.n = IF Exceeds(term) THEN u.n ELSE u.n + 1]

\* one iteration of generatePadovanPattern's loop
PadovanIteration(u) == SequenceStore(u, PadovanTerm(u.sequence, u.n))

\* generatePadovanPattern after its loop: one line per term from index 3 on
PadovanReturn(u) ==
    [u EXCEPT !.phase = "done",
              !.result = IF Len(u.sequence) <= 3 THEN [NoResult EXCEPT !.returned = TRUE]
                         ELSE [returned |-> TRUE, elementCount |-> Len(u.sequence) - 3,
                               terms |-> Len(u.sequence)]]

\* numTerms = Math.max(10, Math.floor(complexity * 5 + density / 2))
RecamanNumTerms(o) == Max(10, (5 * o.complexityX2 + o.density) \div 2)

\* generateRecamanPattern up to its loop
RecamanEnter(o) ==
    [fn |-> "recaman", phase |-> "loop", o |-> o, numTerms |-> RecamanNumTerms(o),
     sequence |-> <<0>>, usedNumbers |-> {0}, n |-> 1, stopped |-> FALSE,
     result |-> NoResult]

\* (a plausible slip: the backward step taken whenever it is positive)
RecamanTermRevisit(previousTerm, n, usedNumbers) ==
    IF previousTerm - n > 0 THEN previousTerm - n ELSE previousTerm + n
\* the backward step when it is positive and new, else the forward step
RecamanTerm(previousTerm, n, usedNumbers) ==
    IF previousTerm - n > 0 /\ (previousTerm - n) \notin usedNumbers
    THEN previousTerm - n
    ELSE previousTerm + n

\* one iteration of generateRecamanPattern's loop
RecamanIteration(u) ==
    SequenceStore(u, RecamanTerm(u.sequence[u.n], u.n, u.usedNumbers))

\* maxVal - minVal over the sequence, at least 1
SequenceRange(sequence) ==
    Max(1, Max(0, CHOOSE v \in Range(sequence) : \A w \in Range(sequence) : w <= v)
           - Min(0, CHOOSE v \in Range(sequence) : \A w \in Range(sequence) : v <= w))

\* the arcs drawn: consecutive terms n apart, skipped when the radius
\* n * scale * (0.8 * width / sequenceRange) / 2 is below 0.1
RecamanArcs(sequence, o) ==
    {n \in 1..(Len(sequence) - 1) :
        ~(4 * n * o.scale * o.viewportWidth < 1000 * SequenceRange(sequence))}

\* generateRecamanPattern after its loop
RecamanReturn(u) ==
    [u EXCEPT !.phase = "done",
              !.result = IF Len(u.sequence) <= 1 THEN [NoResult EXCEPT !.returned = TRUE]
                         ELSE [returned |-> TRUE,
                               elementCount |-> Cardinality(RecamanArcs(u.sequence, u.o)),
                               terms |-> Len(u.sequence)]]

\* the options the two strategies read
SequenceOptionSpace ==
    [complexityX2 : {2, 10, 40}, density : {1, 70, 100}, scale : {100, 1000},
     viewportWidth : {800}]

InitSequence ==
    /\ PageInit
    /\ env = QuietEnv
    /\ run = RunIdle
    /\ pal = PalIdle
    /\ path = PathIdle
    /\ unit \in {PadovanEnter(o) : o \in SequenceOptionSpace}
                    \cup {RecamanEnter(o) : o \in SequenceOptionSpace}

PadovanLoop ==
    /\ unit.phase = "loop" /\ unit.fn = "padovan"
    /\ unit.n < unit.numTerms /\ ~unit.stopped
    /\ unit' = PadovanIteration(unit)
    /\ UNCHANGED <<pageVars, run, pal, path>>

PadovanDone ==
    /\ unit.phase = "loop" /\ unit.fn = "padovan"
    /\ ~(unit.n < unit.numTerms /\ ~unit.stopped)
    /\ unit' = PadovanReturn(unit)
    /\ UNCHANGED <<pageVars, run, pal, path>>

RecamanLoop ==
    /\ unit.phase = "loop" /\ unit.fn = "recaman"
    /\ unit.n < unit.numTerms /\ ~unit.stopped
    /\ unit' = RecamanIteration(unit)
    /\ UNCHANGED <<pageVars, run, pal, path>>

RecamanDone ==
    /\ unit.phase = "loop" /\ unit.fn = "recaman"
    /\ ~(unit.n < unit.numTerms /\ ~unit.stopped)
    /\ unit' = RecamanReturn(unit)
    /\ UNCHANGED <<pageVars, run, pal, path>>

NextSequence == PadovanLoop \/ PadovanDone \/ RecamanLoop \/ RecamanDone

SpecSequence == InitSequence /\ [][NextSequence]_vars

-----------------------------------------------------------------------------
(* randomInt on one input.  buffer[0] is an unsigned 32-bit value, held as
   its two 16-bit halves <<hi, lo>>. *)

\* floor(buffer * n / 0xFFFFFFFF) for 0 < n < 2^15.  With
\* buffer * n = Q * 2^32 + R the quotient by 2^32 - 1 is Q, plus one when
\* Q + R reaches 2^32 - 1.
BufferTimes(buffer, n) ==
    LET a == buffer[1] * n
        b == buffer[2] * n
        t == (a % 65536) + (b \div 65536)
        Q == (a \div 65536) + (t \div 65536)
    IN  IF (t % 65536) = 65535 /\ (b % 65536) + Q >= 65535 THEN Q + 1 ELSE Q

\* buffer[0] / 0xFFFFFFFF, in thousandths
BufferFraction(buffer) == BufferTimes(buffer, 1000)

\* values crypto.getRandomValues can store in a Uint32Array cell
BufferSamples ==
    {<<0, 0>>, <<0, 1>>, <<32767, 65535>>, <<32768, 0>>, <<65535, 65534>>,
     <<65535, 65535>>}

\* values the engine's own Math.random can return (below 1), in thousandths
NativeSamples == {0, 999}

RandomIntInputs ==
    {u \in [phase : {"randomInt"}, crypto : BOOLEAN, buffer : BufferSamples,
            native : NativeSamples, min : {-3, 0, 1, 5}, max : {-3, 0, 5, 7}] :
        u.min <= u.max}

\* the context of a call made outside generateSVG: Math.random is native
UnitContext(u) ==
    [src |-> "native", lcg |-> 1, crypto |-> u.crypto,
     tape |-> <<IF u.crypto THEN BufferFraction(u.buffer) ELSE u.native>>,
     pos |-> 1, fromLcg |-> 0, fromOther |-> 0, now |-> 1000,
     defs |-> <<>>, threw |-> FALSE, ret |-> 0]

InitRandomInt ==
    /\ PageInit
    /\ env = QuietEnv
    /\ run = RunIdle
    /\ pal = PalIdle
    /\ path = PathIdle
    /\ unit \in RandomIntInputs

\* randomInt(min, max) is called
RandomIntCall ==
    /\ unit.phase = "randomInt"
    /\ unit' = [phase |-> "randomIntDone", crypto |-> unit.crypto,
                buffer |-> unit.buffer, native |-> unit.native,
                min |-> unit.min, max |-> unit.max,
                ret |-> randomInt(UnitContext(unit), unit.min, unit.max).ret]
    /\ UNCHANGED <<pageVars, run, pal, path>>

NextRandomInt == RandomIntCall

SpecRandomInt == InitRandomInt /\ [][NextRandomInt]_vars

-----------------------------------------------------------------------------
(* The seeded generator on one seed.  A seed is a double: parseFloat of the
   override, the string hash, or the clock plus perturbations.  Its magnitude
   is held as floor(|seed|) = hi * 2^31 + lo, with hi < 2^22 and lo < 2^31
   (lo is written below 2^31 - 1; 2^31 - 1 itself is <<0, LcgModulus>>), or
   it is infinite: parseFloat("Infinity") and parseFloat("1e999") pass the
   !isNaN test. *)

\* draws made from one seed
MaxDraws == 9

\* Math.floor(Math.abs(seed)) % 2147483647, using 2^31 = 1 (mod 2^31 - 1)
SeedResidue(seed) ==
    LET a == seed.lo % LcgModulus
    IN  IF a >= LcgModulus - seed.hi THEN a - (LcgModulus - seed.hi)
        ELSE a + seed.hi

\* let currentSeed = ...; if (currentSeed === 0) currentSeed = 1.  Infinity %
\* 2147483647 is NaN, and NaN === 0 is false.
SeedState(seed) ==
    [isNaN |-> ~seed.finite,
     s |-> IF seed.finite
           THEN (IF SeedResidue(seed) = 0 THEN 1 ELSE SeedResidue(seed))
           ELSE 0]

\* seededRandom(): NaN stays NaN, and so is the value returned
SeededRandomCall(u) ==
    IF u.isNaN THEN [u EXCEPT !.draws = u.draws + 1, !.retNaN = TRUE]
    ELSE [u EXCEPT !.draws = u.draws + 1, !.s = LcgNext(u.s),
                   !.ret = LcgOutput(LcgNext(u.s))]

\* 0, 0.5, 1, 42, m - 1, m, m + 1, 2^31 (the hash of a string that wraps to
\* -2^31), 2m, a clock value 1700000000000 = 791 * 2^31 + 1351090176, and
\* the largest integer a double counts exactly, 2^53 - 1
SeedSamples ==
    {[finite |-> TRUE, hi |-> 0, lo |-> 0],
     [finite |-> TRUE, hi |-> 0, lo |-> 1],
     [finite |-> TRUE, hi |-> 0, lo |-> 42],
     [finite |-> TRUE, hi |-> 0, lo |-> LcgModulus - 1],
     [finite |-> TRUE, hi |-> 0, lo |-> LcgModulus],
     [finite |-> TRUE, hi |-> 1, lo |-> 0],
     [finite |-> TRUE, hi |-> 1, lo |-> 1],
     [finite |-> TRUE, hi |-> 1, lo |-> LcgModulus - 1],
     [finite |-> TRUE, hi |-> 791, lo |-> 1351090176],
     [finite |-> TRUE, hi |-> 4194303, lo |-> LcgModulus],
     [finite |-> TRUE, hi |-> 0, lo |-> simpleStringHash(<<97, 98, 99>>)],
     [finite |-> FALSE, hi |-> 0, lo |-> 0]}

LcgEnter(seed) ==
    [phase |-> "lcg", seed |-> seed, isNaN |-> SeedState(seed).isNaN,
     s |-> SeedState(seed).s, draws |-> 0, ret |-> 0, retNaN |-> FALSE]

InitLcg ==
    /\ PageInit
    /\ env = QuietEnv
    /\ run = RunIdle
    /\ pal = PalIdle
    /\ path = PathIdle
    /\ unit \in {LcgEnter(seed) : seed \in SeedSamples}

\* Math.random() is called while the seeded generator is installed
LcgDraw ==
    /\ unit.phase = "lcg"
    /\ unit.draws < MaxDraws
    /\ unit' = SeededRandomCall(unit)
    /\ UNCHANGED <<pageVars, run, pal, path>>

NextLcg == LcgDraw

SpecLcg == InitLcg /\ [][NextLcg]_vars

-----------------------------------------------------------------------------
(* The per-layer options on one set of base options.  strokeWeight, opacity
   and scale are in thousandths; the controls step by 0.1, 0.05 and 0.1. *)

\* the largest value of the layer-count control
LayerCountMax == 25

\* base values the controls can deliver: the ends of each range and a value
\* between them
LayerBaseSpace ==
    [complexityX2 : {2, 10, 40},
     density : {1, 70, 100},
     strokeWeight : {0, 100, 1000, 100000},
     opacity : {0, 50, 900, 1000},
     scale : {100, 1000, 10000}]

LayersEnter(o, layerCount) ==
    [phase |-> "layers", o |-> o, layerCount |-> layerCount, layer |-> 0,
     layerOptions |-> LayerOptions(o, 0)]

InitLayers ==
    /\ PageInit
    /\ env = QuietEnv
    /\ run = RunIdle
    /\ pal = PalIdle
    /\ path = PathIdle
    /\ unit \in {LayersEnter(o, n) : o \in LayerBaseSpace,
                                     n \in {1, 2, 8, LayerCountMax}}

\* the layer loop reaches its next index and builds that layer's options
LayerNext ==
    /\ unit.phase = "layers"
    /\ unit.layer + 1 < unit.layerCount
    /\ unit' = [unit EXCEPT !.layer = unit.layer + 1,
                            !.layerOptions = LayerOptions(unit.o, unit.layer + 1)]
    /\ UNCHANGED <<pageVars, run, pal, path>>

NextLayers == LayerNext

SpecLayers == InitLayers /\ [][NextLayers]_vars

-----------------------------------------------------------------------------
(* The grid strategy's size computation on one pair of control values *)

\* the complexity and repetition controls: integers 1..20
GridSizeInputs ==
    [phase : {"gridSize"}, complexityX2 : {2 * k : k \in 1..20},
     repetition : 1..20]

InitGridSize ==
    /\ PageInit
    /\ env = QuietEnv
    /\ run = RunIdle
    /\ pal = PalIdle
    /\ path = PathIdle
    /\ unit \in GridSizeInputs

\* generateGridPattern computes the grid and returns gridSize and cellCount
GridSizeCall ==
    /\ unit.phase = "gridSize"
    /\ unit' = [phase |-> "gridSizeDone", complexityX2 |-> unit.complexityX2,
                repetition |-> unit.repetition,
                cellsPerSide |-> GridCellsPerSide(unit),
                cellCount |-> GridCellCount(unit)]
    /\ UNCHANGED <<pageVars, run, pal, path>>

NextGridSize == GridSizeCall

SpecGridSize == InitGridSize /\ [][NextGridSize]_vars

-----------------------------------------------------------------------------
(* The prime strategy (prime.js).  The primes array is held by its length
   (count) and its last element (largest); one step runs a few iterations of
   the search loop, up to its next push (or to the point where it gives up),
   so what the array holds is what the steps pushed. *)

\* the candidate above which a search that is less than half done gives up
PrimeSearchLimit == 100000

\* iterations of isPrime's loop that the model can take: the loop runs for
\* i = 5, 11, 17, ... while i * i <= num, and the candidates stay below
\* (6 * MaxTrials + 11)^2
MaxTrials == 80

\* isPrime(num): trial division by 2, 3 and the numbers 6k - 1, 6k + 1.  The
\* iterations of `while (i * i <= num)` are the k with (6k + 5)^2 <= num.
isPrime_loop(num) ==
    \A k \in 0..MaxTrials :
        \/ (6 * k + 5) * (6 * k + 5) > num
        \/ ~(num % (6 * k + 5) = 0 \/ num % (6 * k + 7) = 0)

isPrimeSkipsTwin(num) ==
    IF num <= 1 THEN FALSE
    ELSE IF num <= 3 THEN TRUE
    ELSE IF num % 2 = 0 \/ num % 3 = 0 THEN FALSE
    ELSE \A k \in 0..MaxTrials :
             (6 * k + 5) * (6 * k + 5) > num \/ num % (6 * k + 5) # 0
isPrime(num) ==
    IF num <= 1 THEN FALSE
    ELSE IF num <= 3 THEN TRUE
    ELSE IF num % 2 = 0 \/ num % 3 = 0 THEN FALSE
    ELSE isPrime_loop(num)

\* numElements = Math.max(10, Math.floor(100 * complexity * (density / 100) *
\* repetition)).  The product is taken exactly; the double product can fall
\* just below it (100 * 0.29 is 28.999...), which the inputs below avoid.
PrimeNumElements(o) ==
    Max(10, (100 * o.complexityX2 * o.density * o.repetition) \div 200)

PrimeEnter(o) ==
    [phase |-> "search", o |-> o, numElements |-> PrimeNumElements(o),
     num |-> 2, count |-> 0, largest |-> 0, stopped |-> FALSE,
     result |-> NoResult]

\* one iteration of the while loop: test num, push it if prime, advance, and
\* give up past the limit when less than half of the primes are found
PrimeStops(count, num, numElements) ==
    num > PrimeSearchLimit /\ 2 * count < numElements

PrimeIteration_pushed(u, count, largest) ==
    [u EXCEPT !.count = count, !.largest = largest, !.num = u.num + 1,
              !.stopped = PrimeStops(count, u.num + 1, u.numElements)]
PrimeIteration(u) ==
    IF isPrime(u.num) THEN PrimeIteration_pushed(u, u.count + 1, u.num)
    ELSE PrimeIteration_pushed(u, u.count, u.largest)

\* iterations of the loop taken in one step
SearchBurst == 8

\* the iterations of the loop up to and including the next one that pushes
\* a prime or gives up, at most `left` of them
RECURSIVE PrimeSearch(_, _)
PrimeSearch_next(v, before, left) ==
    IF v.count > before \/ v.stopped \/ left = 0 THEN v
    ELSE PrimeSearch(v, left)
PrimeSearch(u, left) == PrimeSearch_next(PrimeIteration(u), u.count, left - 1)

\* the layout draws one element per prime; the strategy returns
\* { elementCount, primeCount, largestPrime, layout }
PrimeReturn(u) ==
    [u EXCEPT !.phase = "primeDone",
              !.result = IF u.count = 0
                         THEN [returned |-> TRUE, elementCount |-> 0,
                               primeCount |-> 0, largestPrime |-> 0]
                         ELSE [returned |-> TRUE, elementCount |-> u.count,
                               primeCount |-> u.count,
                               largestPrime |-> u.largest]]

\* control values: the smallest, two ordinary ones, the largest request that
\* is searched to its end, the smallest that is not, and the largest
PrimeOptionSpace ==
    {[complexityX2 |-> 2, density |-> 1, repetition |-> 1],
     [complexityX2 |-> 2, density |-> 25, repetition |-> 1],
     [complexityX2 |-> 10, density |-> 70, repetition |-> 1],
     [complexityX2 |-> 38, density |-> 84, repetition |-> 12],
     [complexityX2 |-> 26, density |-> 82, repetition |-> 18],
     [complexityX2 |-> 40, density |-> 100, repetition |-> 20]}

InitPrime ==
    /\ PageInit
    /\ env = QuietEnv
    /\ run = RunIdle
    /\ pal = PalIdle
    /\ path = PathIdle
    /\ unit \in {PrimeEnter(o) : o \in PrimeOptionSpace}

PrimeLoop ==
    /\ unit.phase = "search"
    /\ unit.count < unit.numElements /\ ~unit.stopped
    /\ unit' = PrimeSearch(unit, SearchBurst)
    /\ UNCHANGED <<pageVars, run, pal, path>>

PrimeDone ==
    /\ unit.phase = "search"
    /\ unit.count >= unit.numElements \/ unit.stopped
    /\ unit' = PrimeReturn(unit)
    /\ UNCHANGED <<pageVars, run, pal, path>>

NextPrime ==
    \/ PrimeLoop
    \/ PrimeDone

SpecPrime == InitPrime /\ [][NextPrime]_vars

-----------------------------------------------------------------------------
(* The animation loop on one snapshot of elements (generator.js,
   startAnimation / animateFrame).  Attribute values are in thousandths.
   The clock is sampled at quarters of the 5-second cycle, and a snapshot has
   one or two elements, so that every individualPhase is a quarter and its
   sine and cosine are 0, 1 or -1. *)

\* frame callbacks of one loop
MaxAnimFrames == 3

\* Math.sin and Math.cos of k quarter turns, in thousandths
SinQuarter(k) == CASE k % 4 = 1 -> 1000 [] k % 4 = 3 -> -1000 [] OTHER -> 0
CosQuarter(k) == CASE k % 4 = 0 -> 1000 [] k % 4 = 2 -> -1000 [] OTHER -> 0

\* individualPhase = (phase + (index / elements.length) * 0.5) % 1, in
\* quarters (index is 0-based)
IndividualQuarter(q, index, len) == (q + (2 * index) \div len) % 4

\* pulseFactor = 1 + sinPhase * 0.1 * complexityFactor
PulseFactor(k, o) == 1000 + (SinQuarter(k) * 5 * o.complexityX2) \div 1000

\* morphFactor = 1 + sinPhase * 0.3 * complexityFactor
MorphFactor(k, o) == 1000 + (SinQuarter(k) * 15 * o.complexityX2) \div 1000

\* targetOpacity = baseOpacity * (0.5 + (cosPhase + 1) * 0.25), clamped to
\* [0.1, 1]
TargetOpacity(k, o) ==
    Max(100, Min(1000, (o.opacity * (500 + (CosQuarter(k) + 1000) \div 4)) \div 1000))

\* what one run of the try block leaves: the element and whether an error
\* left the block
Done(el, frame) == [el |-> [el EXCEPT !.mutated = frame], threw |-> FALSE]
Skipped(el) == [el |-> el, threw |-> FALSE]
Raised(el) == [el |-> el, threw |-> TRUE]

\* element.setAttribute(...), which raises for an element marked setThrows
SetAttribute(el, changed, frame) ==
    IF el.setThrows THEN Raised(el) ELSE Done(changed, frame)

\* the inner try of the pulse case: getBBox and the transform, errors ignored
PulseBox(el, k, o, frame) ==
    IF el.bboxThrows \/ el.setThrows THEN Skipped(el)
    ELSE Done([el EXCEPT !.transform = <<"scale", PulseFactor(k, o)>>], frame)

\* the switch inside the try block, for the element at `index`
Mutate(el, index, k, q, o, frame) ==
    CASE o.animationType = "pulse" ->
           IF el.tag = "circle"
           THEN SetAttribute(el, [el EXCEPT !.r = Max(1000, (el.r * PulseFactor(k, o)) \div 1000)],
                             frame)
           ELSE IF el.tag \in {"rect", "ellipse"} THEN PulseBox(el, k, o, frame)
           ELSE Skipped(el)
      [] o.animationType = "rotate" ->
           SetAttribute(el, [el EXCEPT !.transform = <<"rotate", q * 90 * ((index % 3) + 1)>>],
                        frame)
      [] o.animationType = "opacity" ->
           SetAttribute(el, [el EXCEPT !.opacity = TargetOpacity(k, o)], frame)
      [] o.animationType = "morph" ->
           IF el.sw > 0
           THEN SetAttribute(el, [el EXCEPT !.sw = Max(100, (el.sw * MorphFactor(k, o)) \div 1000)],
                             frame)
           ELSE Skipped(el)
      [] OTHER -> Skipped(el)

\* catch (e) { /* Ignore animation errors */ }
CaughtNot(r) == r
Caught(r) == [r EXCEPT !.threw = FALSE]

\* the forEach callback for the element at `index`
AnimateElement(el, index, len, q, o, frame) ==
    IF ~el.attached THEN Skipped(el)
    ELSE Caught(Mutate(el, index, IndividualQuarter(q, index, len), q, o, frame))

\* elements.forEach from position i on (1-based), then the request of the
\* next frame; an error that leaves a callback leaves animateFrame
RECURSIVE AnimateFrom(_, _, _)
AnimateFrom_element(u, i, q, r) ==
    IF r.threw
    THEN [u EXCEPT !.elements[i] = [r.el EXCEPT !.visited = u.frames],
                   !.phase = "broken"]
    ELSE AnimateFrom([u EXCEPT !.elements[i] = [r.el EXCEPT !.visited = u.frames]],
                     i + 1, q)
AnimateFrom(u, i, q) ==
    IF i > Len(u.elements) THEN [u EXCEPT !.requested = u.requested + 1]
    ELSE AnimateFrom_element(u, i, q,
             AnimateElement(u.elements[i], i - 1, Len(u.elements), q, u.o, u.frames))

\* animateFrame() run by the host at phase quarter q
animateFrame(u, q) == AnimateFrom([u EXCEPT !.frames = u.frames + 1, !.q = q], 1, q)

\* elements a strategy can have left in the drawing, and what can go wrong
\* with them: detached since the snapshot, a DOM call that raises
Element(tag, attached, setThrows, bboxThrows, sw) ==
    [tag |-> tag, attached |-> attached, setThrows |-> setThrows,
     bboxThrows |-> bboxThrows, r |-> IF tag = "circle" THEN 20000 ELSE 0,
     sw |-> sw, opacity |-> 900, transform |-> <<>>, visited |-> 0, mutated |-> 0]

ElementSamples ==
    {Element("circle", TRUE, FALSE, FALSE, 1000),
     Element("rect", TRUE, FALSE, FALSE, 2000),
     Element("rect", TRUE, TRUE, FALSE, 1000),
     Element("rect", TRUE, FALSE, TRUE, 1000),
     Element("circle", FALSE, FALSE, FALSE, 1000),
     Element("line", TRUE, FALSE, FALSE, 0)}

Snapshots == {<<a>> : a \in ElementSamples}
                 \cup {<<a, b>> : a \in ElementSamples, b \in ElementSamples}

AnimationOptionSpace ==
    [animationType : {"pulse", "rotate", "opacity", "morph"},
     complexityX2 : {10, 20, 40}, opacity : {900}, strokeWeight : {1000}]

\* startAnimation() found elements: the snapshot is taken and the first frame
\* requested
AnimationEnter(o, elements) ==
    [phase |-> "animating", o |-> o, elements |-> elements, original |-> elements,
     frames |-> 0, q |-> 0, requested |-> 1]

InitAnimation ==
    /\ PageInit
    /\ env = QuietEnv
    /\ run = RunIdle
    /\ pal = PalIdle
    /\ path = PathIdle
    /\ unit \in {AnimationEnter(o, els) : o \in AnimationOptionSpace, els \in Snapshots}

\* the host runs the requested frame callback
AnimateFrameCall(q) ==
    /\ unit.phase = "animating"
    /\ unit.frames < MaxAnimFrames
    /\ unit' = animateFrame(unit, q)
    /\ UNCHANGED <<pageVars, run, pal, path>>

NextAnimation == \E q \in 0..3 : AnimateFrameCall(q)

SpecAnimation == InitAnimation /\ [][NextAnimation]_vars

-----------------------------------------------------------------------------
(* The phyllotaxis strategy (patterns/Fibonacci.js), one loop iteration per
   step.  The unit holds the options, the palette, the environment's
   randomness (tape, pos), the loop index i, elementCount, and the number of
   primitives appended to the group. *)

\* numElements = max(10, floor(50 * complexity * (density / 100) * repetition))
FibNumElements(o) == Max(10, (o.complexityX2 * o.density * o.repetition) \div 4)

\* the context of a call made outside generateSVG, the environment's randomness
\* being the unit's tape
TapeContext(u) ==
    [src |-> "native", lcg |-> 1, crypto |-> u.crypto, tape |-> u.tape,
     pos |-> u.pos, fromLcg |-> 0, fromOther |-> 0, now |-> 1000,
     defs |-> <<>>, threw |-> FALSE, ret |-> 0]

\* the draws made inside the switch on shapeType: the rect's rotation, the
\* ellipse's radii and rotation, the line's colour and width
FibShapeDraws(c, shapeType, palette) ==
    CASE shapeType = 1 -> random(c)
      [] shapeType = 3 -> random(random(random(c)))
      [] shapeType = 4 -> random(randomChoice(c, palette))
      [] OTHER -> c

\* the switch has cases 0 .. 4 and no default; elementCount++ follows it
FibIteration_drawn(d3, u, shapeType) ==
    [u EXCEPT !.pos = d3.pos,
              !.i = u.i + 1,
              !.shapeType = shapeType,
              !.appended = u.appended + (IF shapeType \in 0..4 THEN 1 ELSE 0),
              !.elementCount = u.elementCount + 1]
FibIteration_cycle(d2, u) ==
    FibIteration_drawn(FibShapeDraws(d2, u.i % d2.ret, u.palette), u, u.i % d2.ret)
FibIteration_fill(d1, u) == FibIteration_cycle(randomInt(d1, 3, 6), u)
FibIteration(u) ==
    FibIteration_fill(getRandomFill(TapeContext(u), u.palette, u.o.fillType), u)

\* the optional connecting path, and the return
FibPathPoints(o) ==
    LET step == Max(1, FibNumElements(o) \div (50 * o.repetition))
    IN  (FibNumElements(o) + step - 1) \div step
FibHasPath(o) ==
    /\ o.complexityX2 > 10 /\ o.density > 50 /\ o.repetition > 1
    /\ FibPathPoints(o) > 1
FibReturn(u) ==
    [u EXCEPT !.phase = "fibDone",
              !.appended = u.appended + (IF FibHasPath(u.o) THEN 1 ELSE 0),
              !.elementCount = u.elementCount + (IF FibHasPath(u.o) THEN 1 ELSE 0)]

FibOptionSpace ==
    {[complexityX2 |-> 2, density |-> 20, repetition |-> 1, fillType |-> "solid"],
     [complexityX2 |-> 2, density |-> 24, repetition |-> 1, fillType |-> "solid"],
     [complexityX2 |-> 12, density |-> 60, repetition |-> 2, fillType |-> "solid"]}

FibTapes(crypto) ==
    LET top == IF crypto THEN 1000 ELSE 999
    IN  {<<a, b, c>> : a \in {0, 500, 800, top}, b \in {0, 500, 800, top},
                       c \in {0, 500, 800, top}}

InitFib ==
    /\ PageInit
    /\ env = QuietEnv
    /\ run = RunIdle
    /\ pal = PalIdle
    /\ path = PathIdle
    /\ \E o \in FibOptionSpace, crypto \in BOOLEAN :
         \E tape \in FibTapes(crypto) :
            unit = [phase |-> "fib", o |-> o, palette |-> <<"#111111", "#222222">>,
                    crypto |-> crypto, tape |-> tape, pos |-> 1, i |-> 0,
                    shapeType |-> 0, elementCount |-> 0, appended |-> 0]

FibLoop ==
    /\ unit.phase = "fib"
    /\ unit.i < FibNumElements(unit.o)
    /\ unit' = FibIteration(unit)
    /\ UNCHANGED <<pageVars, run, pal, path>>

FibDone ==
    /\ unit.phase = "fib"
    /\ unit.i >= FibNumElements(unit.o)
    /\ unit' = FibReturn(unit)
    /\ UNCHANGED <<pageVars, run, pal, path>>

NextFib == FibLoop \/ FibDone

SpecFib == InitFib /\ [][NextFib]_vars

-----------------------------------------------------------------------------
(* The fill resolver on its own: one getRandomFill(palette, options) call
   with the Definition Registry available and empty. *)

FillPalettes ==
    {<<"#111111">>, <<"#111111", "#222222">>, <<"#111111", "#222222", "#333333">>}

FillInputs ==
    {u \in [phase : {"fill"}, fillType : {"solid", "gradient", "pattern"},
            palette : FillPalettes, crypto : BOOLEAN,
            tape : [1..3 -> {0, 450, 500, 700, 999, 1000}], pos : {1}] :
        u.crypto \/ \A i \in 1..3 : u.tape[i] < 1000}

InitFill ==
    /\ PageInit
    /\ env = QuietEnv
    /\ run = RunIdle
    /\ pal = PalIdle
    /\ path = PathIdle
    /\ unit \in FillInputs

FillReturned(u, c) ==
    [phase |-> "fillDone", fillType |-> u.fillType, palette |-> u.palette,
     crypto |-> u.crypto, tape |-> u.tape, pos |-> c.pos,
     threw |-> c.threw, ret |-> c.ret, defs |-> c.defs]

\* getRandomFill(palette, options) is called
FillCall ==
    /\ unit.phase = "fill"
    /\ unit' = FillReturned(unit, getRandomFill(TapeContext(unit), unit.palette,
                                                unit.fillType))
    /\ UNCHANGED <<pageVars, run, pal, path>>

NextFill == FillCall

SpecFill == InitFill /\ [][NextFill]_vars

-----------------------------------------------------------------------------
(* Properties *)

\* C1: after generateSVG has returned, whether its layer loop completed, a
\* strategy threw or it returned early, Math.random is the function it was
\* immediately before the call -- after any sequence of passes.
C1_RandomRestored ==
    last.calls > 0 => mathRandom = last.randomAtEntry

\* a second pass has failed (the first having returned) and left the native
\* Math.random in place
C1_Witness ==
    /\ last.calls >= 2
    /\ last.outcome = "failed"
    /\ last.randomAtEntry = "native"
    /\ mathRandom = "native"

\* C2: two consecutive passes run with the same non-empty seedOverride, the
\* same options and the same palette leave the same primitive tree (the
\* elements compared without the pass number and without the clock reading
\* embedded in a definition id).
C2_SeededPassesAgree ==
    (/\ last.genCall > 0
     /\ currentOptions.seedOverride # <<>>
     /\ last.prevOptions = currentOptions)
    => [i \in 1..Len(tree) |->
            [tree[i] EXCEPT !.call = 0, !.fill.id.time = 0]]
       = [i \in 1..Len(last.prevTree) |->
            [last.prevTree[i] EXCEPT !.call = 0, !.fill.id.time = 0]]

\* C3: every random draw consumed between the installation of the seeded
\* generator and its restoration is an output of the seeded generator.
C3_OnlySeededDraws ==
    last.outcome \in {"ok", "failed"} => last.fromOther = 0

\* C4: one invocation of the recursive or of the quadtree strategy has, at
\* every point of its execution, appended at most 10,000 primitives to its
\* layer group.
C4_AtMostTenThousand ==
    run.phase = "on" => run.m.appended <= MAX_RECURSION_SAFETY

\* an invocation has returned having appended exactly the limit
C4_Witness ==
    /\ run.phase = "on"
    /\ run.m.stack = <<>>
    /\ run.m.recursionCount >= MAX_RECURSION_SAFETY
    /\ run.m.appended = MAX_RECURSION_SAFETY

\* C5: a pass in which a strategy threw has returned normally, the drawing
\* holds exactly one diagnostic text element, and the statistics display and
\* the information panel report no elements.
C5_FailureContained ==
    last.outcome = "failed" =>
        /\ ~last.rethrown
        /\ Cardinality({i \in 1..Len(tree) : tree[i].tag = "text"}) = 1
        /\ tree[Len(tree)].tag = "text"
        /\ ui.stats = 0
        /\ ui.panelError

\* a strategy threw in the second layer, the first layer having drawn
C5_Witness ==
    /\ last.outcome = "failed"
    /\ \E i \in 1..Len(tree) : tree[i].tag = "g" /\ tree[i].args = <<1>>
    /\ \E i \in 1..Len(tree) : tree[i].layer = 0
    /\ ui.stats = 0

\* C6: every pending frame callback belongs to the animation started by the
\* latest generateSVG call, and no callback of an earlier call's animation
\* has run its element mutations after a later call began.
C6_NoStaleFrame ==
    /\ ~last.stale
    /\ \A p \in pending : p.owner = last.calls

\* the second pass animates, after a first pass that animated too, and one
\* of its frames has run
C6_Witness ==
    /\ last.calls = 2
    /\ last.op = "frame"
    /\ last.frames >= 2
    /\ \E p \in pending : p.owner = 2 /\ p.h >= 4

\* C7: stopAnimation applied twice gives what it gives applied once, and it
\* changes nothing when no animation is running; a stop-button step taken
\* when nothing runs, or right after another stop, changes no page state.
C7_StopIdempotent ==
    [][/\ stopAnimation(stopAnimation(Anim)) = stopAnimation(Anim)
       /\ (~isAnimating /\ animationFrame = 0) => stopAnimation(Anim) = Anim
       /\ (last'.op = "stop" /\ ((~isAnimating /\ animationFrame = 0) \/ last.op = "stop"))
            => UNCHANGED <<mathRandom, env, tree, defs, isAnimating, animationFrame,
                           pending, nextHandle, currentOptions, mathInfo, ui,
                           generationCount, svgData>>]_vars

\* the stop button was pressed on a running animation, which is now stopped
C7_Witness ==
    /\ last.op = "stop"
    /\ currentOptions.animation
    /\ last.outcome = "ok"
    /\ nextHandle > 1
    /\ ~isAnimating
    /\ animationFrame = 0
    /\ pending = {}

\* C8: getColorPalette returns a non-empty sequence whose every entry is a
\* '#' followed by exactly six hex digits.
C8_PaletteValid ==
    pal.phase = "out" =>
        /\ Len(pal.result) > 0
        /\ \A i \in 1..Len(pal.result) :
              /\ pal.result[i].type = "string"
              /\ Len(pal.result[i].s) = 7
              /\ pal.result[i].s[1] = "#"
              /\ \A k \in 2..7 : pal.result[i].s[k] \in HexDigits

\* the requested category holds only malformed entries
C8_Witness ==
    /\ pal.phase = "out"
    /\ pal.q.domReady
    /\ pal.q.category = "catA"
    /\ pal.q.paletteName = "catA"
    /\ Len(pal.q.allColors) = 1
    /\ Len(pal.q.allColors[1][2].items) = MaxItems
    /\ pal.result = UltimateFallback

\* C9: after a pass that reached generation the registry holds only
\* definitions registered by that pass, and every url(#id) fill in the tree
\* names a definition in the registry.
C9_RegistryFresh ==
    last.genCall > 0 =>
        /\ \A i \in 1..Len(defs) : defs[i].call = last.genCall
        /\ \A j \in 1..Len(tree) :
              tree[j].fill.kind = "url" =>
                  \E i \in 1..Len(defs) : defs[i].def.id = tree[j].fill.id

\* two passes in a row have registered definitions and drawn with them
C9_Witness ==
    /\ last.genCall = 2
    /\ Len(defs) > 0
    /\ \E j \in 1..Len(tree) : tree[j].fill.kind = "url"
    /\ \E j \in 1..Len(last.prevTree) : last.prevTree[j].fill.kind = "url"

\* C10: pointsToPathString returns the empty string for a list of no point
\* and for a list of one point, whatever the smoothing mode and the
\* close-path flag.
C10_ShortListsEmpty ==
    (path.phase = "out" /\ Len(path.points) < 2) => path.d = ""

\* a single point, smoothed and closed
C10_Witness ==
    /\ path.phase = "out"
    /\ Len(path.points) = 1
    /\ path.smoothingType = "cubic_bezier"
    /\ path.closePath
    /\ path.d = ""

\* C11: for a list of n >= 2 points the path string holds exactly one M
\* command, first, followed by exactly n-1 segment commands (and the closing
\* Z when asked for): all of them L in the straight mode, all of them C in
\* the cubic Bezier mode.
C11_OneMoveThenSegments ==
    (path.phase = "out" /\ Len(path.points) >= 2) =>
        /\ Len(path.cmds) = Len(path.points) + (IF path.closePath THEN 1 ELSE 0)
        /\ path.cmds[1] = "M"
        /\ \A i \in 2..Len(path.points) :
              /\ path.cmds[i] \in {"L", "C"}
              /\ path.smoothingType = "straight" => path.cmds[i] = "L"
              /\ path.smoothingType = "cubic_bezier" => path.cmds[i] = "C"
        /\ path.closePath => path.cmds[Len(path.cmds)] = "Z"

\* three colinear points joined by straight lines: two L commands
C11_Witness ==
    /\ path.phase = "out"
    /\ path.points = <<[x |-> 0, y |-> 0], [x |-> 10, y |-> 0], [x |-> 20, y |-> 0]>>
    /\ path.smoothingType = "straight"
    /\ ~path.closePath
    /\ path.cmds = <<"M", "L", "L">>
    /\ path.d = "M 0.00 0.00L 10.00 0.00 L 20.00 0.00"

\* three points smoothed: two C segments
C11_WitnessCubic ==
    /\ path.phase = "out"
    /\ Len(path.points) = 3
    /\ path.smoothingType = "cubic_bezier"
    /\ path.cmds = <<"M", "C", "C">>

\* C12: the Padovan sequence starts 1, 1, 1 and every later term is
\* P(n) = P(n-2) + P(n-3); its first six terms are 1, 1, 1, 2, 2, 3.
C12_PadovanTerms ==
    unit.phase \in {"loop", "done"} /\ unit.fn = "padovan" =>
        /\ SubSeq(unit.sequence, 1, 3) = <<1, 1, 1>>
        /\ \A k \in 4..Len(unit.sequence) :
              unit.sequence[k] = unit.sequence[k - 2] + unit.sequence[k - 3]
        /\ Len(unit.sequence) >= 6 => SubSeq(unit.sequence, 1, 6) = <<1, 1, 1, 2, 2, 3>>
        /\ unit.phase = "done" => Len(unit.sequence) >= 6

\* the strategy has returned for the default options
C12_Witness ==
    /\ unit.phase = "done" /\ unit.fn = "padovan"
    /\ unit.o.complexityX2 = 10 /\ unit.o.density = 70
    /\ unit.result.returned
    /\ SubSeq(unit.sequence, 1, 6) = <<1, 1, 1, 2, 2, 3>>

\* C13: the Recaman sequence starts at 0 and every later term a(n) is
\* a(n-1) - n when that is positive and not yet in the sequence, else
\* a(n-1) + n; its first eight terms are 0, 1, 3, 6, 2, 7, 13, 20.
C13_RecamanTerms ==
    unit.phase \in {"loop", "done"} /\ unit.fn = "recaman" =>
        /\ unit.sequence[1] = 0
        /\ \A k \in 2..Len(unit.sequence) :
              unit.sequence[k] =
                  IF /\ unit.sequence[k - 1] - (k - 1) > 0
                     /\ \A j \in 1..(k - 1) :
                            unit.sequence[j] # unit.sequence[k - 1] - (k - 1)
                  THEN unit.sequence[k - 1] - (k - 1)
                  ELSE unit.sequence[k - 1] + (k - 1)
        /\ Len(unit.sequence) >= 8 =>
              SubSeq(unit.sequence, 1, 8) = <<0, 1, 3, 6, 2, 7, 13, 20>>
        /\ unit.phase = "done" => Len(unit.sequence) >= 8

\* the strategy has returned, having stepped backward to 2
C13_Witness ==
    /\ unit.phase = "done" /\ unit.fn = "recaman"
    /\ unit.result.returned
    /\ SubSeq(unit.sequence, 1, 8) = <<0, 1, 3, 6, 2, 7, 13, 20>>

\* C20: in the Padovan and in the Recaman strategy only the last term of the
\* sequence can exceed 1,000,000, no term is added after a term that
\* exceeds it, and the strategy then still returns its result.
C20_HaltsPastLimit ==
    /\ [](unit.phase \in {"loop", "done"} =>
            /\ \A k \in 1..(Len(unit.sequence) - 1) : unit.sequence[k] <= SEQUENCE_LIMIT
            /\ unit.stopped = (unit.sequence[Len(unit.sequence)] > SEQUENCE_LIMIT)
            /\ unit.phase = "done" =>
                  /\ unit.result.returned
                  /\ unit.result.terms = Len(unit.sequence))
    /\ [][(unit.phase = "loop" /\ unit.stopped) =>
              /\ unit'.sequence = unit.sequence
              /\ unit'.phase = "done"
              /\ unit'.result.returned]_vars

\* a Padovan run left by the break: its last term alone exceeds the limit
C20_Witness ==
    /\ unit.phase = "done" /\ unit.fn = "padovan"
    /\ unit.stopped
    /\ Len(unit.sequence) < unit.numTerms
    /\ unit.sequence[Len(unit.sequence)] > SEQUENCE_LIMIT
    /\ unit.sequence[Len(unit.sequence) - 1] <= SEQUENCE_LIMIT
    /\ unit.result.returned
    /\ unit.result.elementCount = Len(unit.sequence) - 3

\* the scenario of C14: the grid strategy with complexity 5, density 70,
\* repetition 1, one layer, 800x600
GridScenario ==
    /\ last.genCall > 0
    /\ currentOptions.patternType = "grid"
    /\ currentOptions.complexityX2 = 10 /\ currentOptions.density = 70
    /\ currentOptions.repetition = 1 /\ currentOptions.layerCount = 1
    /\ currentOptions.viewportWidth = 800 /\ currentOptions.viewportHeight = 600

C15_RandomIntInRange ==
    unit.phase = "randomIntDone" => unit.min <= unit.ret /\ unit.ret <= unit.max

\* C16: for every seed value the generator's initial state is
\* max(1, floor(|seed|) mod 2147483647), every later state stays in
\* 1..2147483646, and every output lies in [0, 1).
C16_StateStaysInRange ==
    unit.phase = "lcg" =>
        /\ ~unit.isNaN
        /\ unit.s \in 1..(LcgModulus - 1)
        /\ unit.draws = 0 => unit.s = Max(1, SeedResidue(unit.seed))
        /\ unit.draws > 0 => ~unit.retNaN /\ unit.ret \in 0..999

\* C17: layer 0 receives the base values unchanged; for every later layer
\* index up to layerCount - 1 (layerCount up to 25) each of complexity,
\* density, strokeWeight, opacity and scale is at most its base value and at
\* least a small positive minimum.
C17_LayerValuesBounded ==
    unit.phase = "layers" =>
        IF unit.layer = 0 THEN unit.layerOptions = unit.o
        ELSE /\ unit.layerOptions.complexityX2 <= unit.o.complexityX2
             /\ unit.layerOptions.complexityX2 >= 2
             /\ unit.layerOptions.density <= unit.o.density
             /\ unit.layerOptions.density >= 1
             /\ unit.layerOptions.strokeWeight <= unit.o.strokeWeight
             /\ unit.layerOptions.strokeWeight >= 100
             /\ unit.layerOptions.opacity <= unit.o.opacity
             /\ unit.layerOptions.opacity >= 100
             /\ unit.layerOptions.scale <= unit.o.scale
             /\ unit.layerOptions.scale > 0

\* C18 as stated: the side of the grid has ceil(complexity x 1.5 +
\* repetition) cells, for every complexity and repetition in 1..20, and
\* cellCount is that side squared.
C18_SideIsCeiling ==
    unit.phase = "gridSizeDone" =>
        /\ unit.cellsPerSide = (3 * unit.complexityX2 + 4 * unit.repetition + 3) \div 4
        /\ unit.cellCount = unit.cellsPerSide * unit.cellsPerSide

\* C18, amended: the side of the grid has floor(complexity x 1.5 +
\* repetition) cells, for every complexity and repetition in 1..20, and
\* cellCount is that side squared.
C18_SideIsFloor ==
    unit.phase = "gridSizeDone" =>
        /\ 4 * unit.cellsPerSide <= 3 * unit.complexityX2 + 4 * unit.repetition
        /\ 4 * (unit.cellsPerSide + 1) > 3 * unit.complexityX2 + 4 * unit.repetition
        /\ unit.cellCount = unit.cellsPerSide * unit.cellsPerSide

\* an odd complexity, where rounding down and rounding up differ: complexity
\* 5, repetition 1 gives 8 cells per side and 64 cells
C18_Witness ==
    /\ unit.phase = "gridSizeDone"
    /\ unit.complexityX2 = 10 /\ unit.repetition = 1
    /\ unit.cellsPerSide = 8 /\ unit.cellCount = 64

\* whether n has no divisor d with 1 < d and d * d <= n (n below 485 * 485)
HasNoDivisor(n) == \A d \in 2..485 : d * d > n \/ n % d # 0

C19_WitnessPastLimit ==
    /\ unit.phase = "primeDone"
    /\ unit.numElements = 19152
    /\ unit.result.primeCount = 19152
    /\ unit.result.largestPrime = 214259

\* a request of 40000 primes given up at the limit
C19_WitnessStopped ==
    /\ unit.phase = "primeDone"
    /\ unit.numElements = 40000
    /\ unit.stopped
    /\ unit.result.primeCount = 9592

\* C21: in every interleaving of generateSVG calls, stop clicks and frame
\* callbacks at most one frame callback is pending, and the one that is
\* pending is the one whose handle state.animationFrame holds, of a loop
\* that is running.
C21_OnePendingFrame ==
    /\ Cardinality(pending) <= 1
    /\ \A p \in pending : p.h = animationFrame /\ isAnimating

\* a frame callback has run and requested the next frame, in the loop of a
\* second pass that replaced the loop of the first
C21_Witness ==
    /\ last.op = "frame"
    /\ last.calls = 2
    /\ isAnimating
    /\ Cardinality(pending) = 1
    /\ \E p \in pending : p.owner = 2 /\ p.h = animationFrame /\ p.h >= 3

\* C22: after a frame callback, whichever elements raised while being
\* mutated, every element of the snapshot has been visited in that frame,
\* every attached element whose mutation does not raise has been mutated in
\* it (opacity and rotate apply to every element), and the next frame has
\* been requested.
C22_FrameSurvivesElementError ==
    unit.phase \in {"animating", "broken"} /\ unit.frames > 0 =>
        /\ unit.phase = "animating"
        /\ unit.requested = unit.frames + 1
        /\ \A i \in 1..Len(unit.elements) :
               /\ unit.elements[i].visited = unit.frames
               /\ (/\ unit.o.animationType \in {"opacity", "rotate"}
                   /\ unit.elements[i].attached
                   /\ ~unit.elements[i].setThrows)
                      => unit.elements[i].mutated = unit.frames

\* the first element's mutation raised in the second frame and the second
\* element was mutated in it all the same
C22_Witness ==
    /\ unit.phase = "animating"
    /\ unit.frames = 2
    /\ unit.o.animationType = "opacity"
    /\ Len(unit.elements) = 2
    /\ unit.elements[1].setThrows /\ unit.elements[1].mutated = 0
    /\ unit.elements[2].mutated = 2
    /\ unit.requested = 3

\* C23: on every frame of a running morph animation the stroke width set on
\* an element is its pre-animation stroke width times that frame's factor
\* 1 + sin(phase) x 0.3 x (complexity/10), floored at 0.1, so it stays within
\* [1 - 0.3 x complexity/10, 1 + 0.3 x complexity/10] times the original.
C23_MorphAroundOriginal ==
    (unit.phase = "animating" /\ unit.frames > 0 /\ unit.o.animationType = "morph") =>
        \A i \in 1..Len(unit.elements) :
            (/\ unit.elements[i].attached
             /\ ~unit.elements[i].setThrows
             /\ unit.original[i].sw > 0)
            => /\ unit.elements[i].sw =
                      Max(100, (unit.original[i].sw
                                  * MorphFactor(IndividualQuarter(unit.q, i - 1,
                                                                  Len(unit.elements)),
                                                unit.o)) \div 1000)
               /\ 1000 * unit.elements[i].sw
                      <= unit.original[i].sw * (1000 + 15 * unit.o.complexityX2)
               /\ \/ unit.elements[i].sw = 100
                  \/ 1000 * unit.elements[i].sw
                         >= unit.original[i].sw * (1000 - 15 * unit.o.complexityX2)

\* C24: when the quadtree strategy returns, the elementCount it reports
\* equals the number of primitives (leaf shapes and dividing lines) it
\* appended to the layer group, and so is at most 10,000.
C24_CountIsPrimitives ==
    (/\ run.phase = "on"
     /\ run.o.patternType = "quadtree"
     /\ run.m.stack = <<>>
     /\ ~run.m.c.threw)
    => /\ ElementCount(run.m, run.o) = run.m.appended
       /\ ElementCount(run.m, run.o) <= MAX_RECURSION_SAFETY

\* C25: when the phyllotaxis strategy returns it has drawn one shape for each
\* of its numElements positions, whatever cycle lengths were drawn, and the
\* elementCount it reports equals the number of primitives appended.
C25_OneShapePerPosition ==
    unit.phase = "fibDone" =>
        /\ unit.appended = FibNumElements(unit.o) + (IF FibHasPath(unit.o) THEN 1 ELSE 0)
        /\ unit.elementCount = unit.appended

\* C26: the definitions registered in the Definition Registry during one
\* pass carry pairwise different ids, however many gradients and patterns
\* the pass creates.
C26_RegistryIdsDistinct ==
    \A i, j \in 1..Len(defs) :
        (i # j /\ defs[i].call = defs[j].call) => defs[i].def.id # defs[j].def.id

\* C27: with fill mode pattern and a palette of at least one colour, the
\* fill resolver does not raise: it returns a solid colour, or the handle of
\* a pattern that is in the Definition Registry.
C27_PatternFillReturns ==
    (unit.phase = "fillDone" /\ unit.fillType = "pattern")
    => /\ ~unit.threw
       /\ \/ unit.ret.kind = "color"
          \/ /\ unit.ret.kind = "url"
             /\ \E i \in 1..Len(unit.defs) :
                   /\ unit.defs[i].id = unit.ret.id
                   /\ unit.defs[i].kind = "pattern"

\* C28: between event handlers, state.isAnimating is true exactly when
\* state.animationFrame holds a frame handle.
C28_FlagIffHandle == isAnimating <=> (animationFrame # 0)

\* a loop that has run a frame callback, and a page whose loop was stopped
\* by the stop button after it had run one
C28_Witness == isAnimating /\ animationFrame # 0 /\ last.op = "frame"

C28_WitnessStopped == ~isAnimating /\ animationFrame = 0 /\ last.op = "stop" /\ last.frames > 0

\* C29: a generateSVG call that fails inside the layer loop leaves
\* state.svgData, state.mathInfo and state.generationCount as they were and
\* starts no animation.
C29_FailedPassKeepsState ==
    [][(last'.calls # last.calls /\ last'.outcome = "failed")
        => /\ svgData' = svgData
           /\ mathInfo' = mathInfo
           /\ generationCount' = generationCount
           /\ ~isAnimating'
           /\ animationFrame' = 0
           /\ pending' \subseteq pending]_vars

\* a second pass with animation enabled has failed, after a first pass that
\* succeeded and stored its drawing
C29_Witness ==
    /\ last.outcome = "failed"
    /\ last.calls = 2
    /\ currentOptions.animation
    /\ svgData.stored
    /\ generationCount = 1
    /\ mathInfo.generator = "quadtree"
    /\ ~isAnimating

\* C30: a generateSVG call that returns before generating leaves the
\* primitive tree, the Definition Registry, the statistics and the active
\* randomness source as they were; its only effect is that of
\* stopAnimation().
C30_AbortOnlyStops ==
    [][(last'.calls # last.calls /\ last'.outcome = "aborted")
        => /\ tree' = tree
           /\ defs' = defs
           /\ ui' = ui
           /\ mathRandom' = mathRandom
           /\ UNCHANGED <<env, nextHandle, currentOptions, mathInfo,
                          generationCount, svgData>>
           /\ isAnimating' = stopAnimation(Anim).isAnimating
           /\ animationFrame' = stopAnimation(Anim).animationFrame
           /\ pending' = stopAnimation(Anim).pending
           /\ ~isAnimating'
           /\ pending' = {}]_vars

\* a call has returned early on a page that holds a drawing with registered
\* definitions and whose animation had run a frame: the animation is stopped
C30_Witness ==
    /\ last.outcome = "aborted"
    /\ last.op = "generate"
    /\ last.frames > 0
    /\ currentOptions.animation
    /\ tree # <<>>
    /\ Len(defs) > 0
    /\ ui.stats > 0
    /\ ~isAnimating
    /\ pending = {}

====
